---- MODULE Spec2Model ----
(***************************************************************************)
(* A model of the structure-to-HTML derivation engine of                   *)
(* tagged-pdf-to-html: role resolution (resolveRole), the attribute        *)
(* cascade (getCSSProperties / getHTMLAttributes) and the structure-tree   *)
(* traversal (processChildren / processStructElement / processLink).       *)
(*                                                                         *)
(* Strings the code inspects character by character (regular expressions,  *)
(* escapeHtml) are modelled as sequences of one-character strings; markup  *)
(* is modelled as a sequence of tokens (open tag, close tag, text, ...)    *)
(* whose concatenation is the string the code builds.                      *)
(***************************************************************************)
EXTENDS Integers, Sequences, FiniteSets, TLC

VARIABLES
    pc,            \* which operation has run: "input" before, "resolved" / "mapped" / "rendered" after
    roleMap,       \* structTreeRoot.roleMap: raw type -> parent type
    rawType,       \* resolveRole's `role` argument
    namespaceURI,  \* resolveRole's `namespaceURI` argument
    current,       \* resolveRole's local `current`; its return value once pc = "resolved"
    seen,          \* resolveRole's local `seen`
    steps,         \* how many times resolveRole has executed `current = next`
    attributes,    \* an element's A entry: the array of owner-tagged attribute dictionaries
    cssMap,        \* getCSSProperties' cssMap, in insertion order, once it has run
    attrMap,       \* getHTMLAttributes' attrMap, in insertion order, once it has run
    xref,          \* context.xref: object number -> structure element dictionary
    structTreeRoot,\* context.structTreeRoot: its K entry
    rendered,      \* what traverseStructure's processChildren call returned, once it has run
    pending,       \* the documents deriveHtmlFromPdf is still to be called with
    context,       \* the PDFContext of the conversion in progress (createPDFContext)
    idState,       \* traverseStructure's idState: byRef, byDict, counter
    cursor,        \* how many steps of the document's traversal have been taken
    body,          \* the markup the traversal has emitted so far, one piece per step
    extracted,     \* the pages ContentExtractor.extract was run on, in order, in this conversion
    results,       \* the outcome of every conversion that has ended
    operators,     \* extractOperators' fns/args: the operator list of the page
    opIndex,       \* extractOperators' loop variable i
    stack,         \* extractOperators' local stack
    mcidToProps,   \* ContentExtractor.mcidToProps, in insertion order
    mcidToOps,     \* ContentExtractor.mcidToOps
    mcidToImages,  \* ContentExtractor.mcidToImages
    textItems,     \* the text items the sink of extractText is handed, in order
    textIndex,     \* processTextItems' position in them
    textStack,     \* ContentExtractor.textStack
    mcidToText,    \* ContentExtractor.mcidToText: the fragments appended per content id
    mcidHasContent,\* ContentExtractor.mcidHasContent
    lastTextMcids, \* ContentExtractor.lastTextMcids
    fnArray,       \* generateSVG's `ops`: the operators of one graphic
    fnIndex,       \* generateSVG's position in its loop over them
    currentPath,   \* generateSVG's local currentPath
    paths,         \* generateSVG's local paths
    svg,           \* what generateSVG returned, or that it raised
    link,          \* processLink's `child`: the dictionary of a Link element
    href,          \* processLink's local href
    kidIndex       \* findHref's position in its loop over the children of the Link

roleVars == <<rawType, namespaceURI, current, seen, steps>>
attrVars == <<attributes, cssMap, attrMap>>
treeVars == <<xref, structTreeRoot, rendered>>
runVars == <<pending, context, idState, cursor, body, extracted, results>>
extractVars == <<operators, opIndex, stack, mcidToProps, mcidToOps, mcidToImages>>
linkVars == <<link, href, kidIndex>>
textVars == <<textItems, textIndex, textStack, mcidToText, mcidHasContent, lastTextMcids>>
svgVars == <<fnArray, fnIndex, currentPath, paths, svg>>
vars == <<pc, roleMap, roleVars, attrVars, treeVars, runVars, extractVars, linkVars, textVars, svgVars>>

Idle == "idle"

\* The variables of the operations a specification does not exercise.
RoleIdle == rawType = Idle /\ namespaceURI = Idle /\ current = Idle /\ seen = {} /\ steps = 0
AttrIdle == attributes = <<>> /\ cssMap = <<>> /\ attrMap = <<>>
NoContent == [html |-> <<>>, text |-> <<>>, rootTag |-> "", visited |-> <<>>]
TreeIdle ==
    /\ xref = <<>>
    /\ structTreeRoot = [K |-> <<>>, KArr |-> FALSE]
    /\ rendered = NoContent
NoContext == [data |-> Idle, pageContentExtractors |-> <<>>]
NoIdState == [byRef |-> <<>>, byDict |-> <<>>, counter |-> 1]
RunIdle ==
    /\ pending = <<>>
    /\ context = NoContext
    /\ idState = NoIdState
    /\ cursor = 0
    /\ body = <<>>
    /\ extracted = <<>>
    /\ results = <<>>
LinkIdle == link = Idle /\ href = <<>> /\ kidIndex = 0
TextIdle ==
    /\ textItems = <<>>
    /\ textIndex = 0
    /\ textStack = <<>>
    /\ mcidToText = <<>>
    /\ mcidHasContent = {}
    /\ lastTextMcids = {}
NoSvg == [tag |-> "", paths |-> <<>>]
SvgIdle == fnArray = <<>> /\ fnIndex = 0 /\ currentPath = <<>> /\ paths = <<>> /\ svg = NoSvg
ExtractIdle ==
    /\ operators = <<>>
    /\ opIndex = 0
    /\ stack = <<>>
    /\ mcidToProps = <<>>
    /\ mcidToOps = <<>>
    /\ mcidToImages = <<>>

(***************************************************************************)
(* Bounds of the model.                                                    *)
(***************************************************************************)
MaxRoleMapEntries == 3
MaxAttrDicts == 2

(***************************************************************************)
(* Role resolution: src/src/structure_traversal.ts, resolveRole.           *)
(***************************************************************************)

\* The characters of the type names the model uses (a JavaScript string is a
\* sequence of characters; the regular expressions of the code read them).
Spelling(name) ==
    CASE name = ""      -> <<>>
      [] name = "H"     -> <<"H">>
      [] name = "Hn"    -> <<"H", "n">>
      [] name = "H1"    -> <<"H", "1">>
      [] name = "H2"    -> <<"H", "2">>
      [] name = "H3"    -> <<"H", "3">>
      [] name = "H4"    -> <<"H", "4">>
      [] name = "H5"    -> <<"H", "5">>
      [] name = "H6"    -> <<"H", "6">>
      [] name = "H7"    -> <<"H", "7">>
      [] name = "H9"    -> <<"H", "9">>
      [] name = "H12"   -> <<"H", "1", "2">>
      [] name = "H\\d"  -> <<"H", "\\", "d">>
      [] name = "P"     -> <<"P">>
      [] OTHER          -> <<name>>

Digits == {"0", "1", "2", "3", "4", "5", "6", "7", "8", "9"}

\* /^H\\d+$/.test(role): in a regular-expression literal "\\" is an escaped
\* backslash, so the pattern is H, one backslash, then one or more letters d.
MatchesHeadingPattern(role) ==
    LET s == Spelling(role)
    IN  /\ Len(s) >= 3
        /\ s[1] = "H"
        /\ s[2] = "\\"
        /\ \A i \in 3..Len(s) : s[i] = "d"

\* The pattern the comment, the documentation and the tests describe: H
\* followed by one or more digits.
MatchesHDigits(role) ==
    LET s == Spelling(role)
    IN  /\ Len(s) >= 2
        /\ s[1] = "H"
        /\ \A i \in 2..Len(s) : s[i] \in Digits

standardTypes ==
    { "Document", "Part", "Sect", "Div", "Art", "BlockQuote", "Caption",
      "TOC", "TOCI", "Index", "NonStruct", "Private", "Aside",
      "Title", "FENote", "DocumentFragment",
      "P", "H", "H1", "H2", "H3", "H4", "H5", "H6",
      "L", "LI", "Lbl", "LBody",
      "Table", "TR", "TH", "TD", "THead", "TBody", "TFoot",
      "Span", "Quote", "Note", "Reference", "BibEntry", "Code", "Link",
      "Annot", "Ruby", "RB", "RT", "RP", "Warichu", "WT", "WP",
      "Em", "Strong", "Sub", "Sup",
      "Figure", "Formula", "Form",
      "Artifact" }

isStandardType(role) ==
    \/ role = "Hn"
    \/ MatchesHeadingPattern(role)
    \/ role \in standardTypes

\* namespaceURI.trim().toLowerCase() on the namespaces the model uses.
NormalizeNamespace(ns) ==
    CASE ns = "   "                        -> ""
      [] ns = " HTTP://ISO.ORG/PDF/SSN "   -> "http://iso.org/pdf/ssn"
      [] OTHER                             -> ns

isPdfStandardNamespace(ns) ==
    \/ ns = ""
    \/ NormalizeNamespace(ns) \in
         { "", "http://iso.org/pdf2/ssn", "http://iso.org/pdf2/ssn#",
           "http://iso.org/pdf2/ssn/1.0", "http://iso.org/pdf/ssn",
           "http://iso.org/pdf/ssn/1.0" }

\* The loop condition of resolveRole without its cycle detection.
LoopGuardNoCycleCheck(rm, cur, visited) == cur \in DOMAIN rm

\* while (roleMap && roleMap.has(current) && !seen.has(current))
LoopGuard(rm, cur, visited) ==
    /\ cur \in DOMAIN rm
    /\ cur \notin visited

\* The loop of resolveRole as a function of its locals.
RECURSIVE walkRoleMap(_, _, _)
walkRoleMap(rm, cur, visited) ==
    IF ~LoopGuard(rm, cur, visited)
    THEN cur
    ELSE LET next == rm[cur]
         IN  IF next = ""
             THEN cur
             ELSE IF isStandardType(next)
             THEN next
             ELSE walkRoleMap(rm, next, visited \cup {cur})

resolveRole(role, rm, ns) ==
    IF role = ""
    THEN role
    ELSE IF isPdfStandardNamespace(ns) /\ isStandardType(role)
    THEN role
    ELSE walkRoleMap(rm, role, {})

(***************************************************************************)
(* Inputs of the role resolver.                                            *)
(***************************************************************************)
RoleMapKeys == {"Foo", "Bar", "H7", "P"}
RoleMapValues == {"Foo", "Bar", "H7", "P", ""}
RawTypes == {"", "P", "H1", "H7", "H12", "H\\d", "Foo", "Bar"}
Namespaces ==
    { "", " HTTP://ISO.ORG/PDF/SSN ", "http://iso.org/pdf2/ssn",
      "http://www.w3.org/1998/Math/MathML", "urn:example:custom" }

RoleMaps ==
    UNION { [D -> RoleMapValues] :
            D \in {S \in SUBSET RoleMapKeys : Cardinality(S) <= MaxRoleMapEntries} }

InitRole ==
    /\ pc = "input"
    /\ roleMap \in RoleMaps
    /\ rawType \in RawTypes
    /\ namespaceURI \in Namespaces
    /\ current = Idle
    /\ seen = {}
    /\ steps = 0
    /\ AttrIdle
    /\ TreeIdle
    /\ RunIdle
    /\ TextIdle
    /\ SvgIdle
    /\ ExtractIdle
    /\ LinkIdle

\* resolveRole up to its loop: the two early returns, then `current = role`.
ResolveStart ==
    /\ pc = "input"
    /\ current' = rawType
    /\ pc' = IF rawType = "" \/ (isPdfStandardNamespace(namespaceURI) /\ isStandardType(rawType))
             THEN "resolved"
             ELSE "walk"
    /\ UNCHANGED <<roleMap, rawType, namespaceURI, seen, steps, attrVars, treeVars, runVars, extractVars, linkVars, textVars, svgVars>>

\* One iteration of the loop of resolveRole.
WalkStep ==
    /\ pc = "walk"
    /\ LoopGuard(roleMap, current, seen)
    /\ seen' = seen \cup {current}
    /\ LET next == roleMap[current]
       IN  IF next = ""
           THEN /\ pc' = "resolved"
                /\ UNCHANGED <<current, steps>>
           ELSE /\ current' = next
                /\ steps' = steps + 1
                /\ pc' = IF isStandardType(next) THEN "resolved" ELSE "walk"
    /\ UNCHANGED <<roleMap, rawType, namespaceURI, attrVars, treeVars, runVars, extractVars, linkVars, textVars, svgVars>>

\* The loop condition fails: return current.
WalkExit ==
    /\ pc = "walk"
    /\ ~LoopGuard(roleMap, current, seen)
    /\ pc' = "resolved"
    /\ UNCHANGED <<roleMap, roleVars, attrVars, treeVars, runVars, extractVars, linkVars, textVars, svgVars>>

NextRole == ResolveStart \/ WalkStep \/ WalkExit

SpecRole == InitRole /\ [][NextRole]_vars

\* The loop, taken step by step, returns what the recursive form returns.
WalkAgreesWithOperator ==
    pc = "resolved" => current = resolveRole(rawType, roleMap, namespaceURI)

(***************************************************************************)
(* C1: resolveRole returns rawType unchanged, whatever the role map holds, *)
(* when the namespace is a default standard namespace and rawType is a     *)
(* standard type, the standard types including every H<digits> name.       *)
(***************************************************************************)
C1_IdentityResolution ==
    ( /\ pc = "resolved"
      /\ isPdfStandardNamespace(namespaceURI)
      /\ (isStandardType(rawType) \/ MatchesHDigits(rawType)) )
    => current = rawType

(***************************************************************************)
(* C2: the role-map walk stops after at most N replacement steps, N the    *)
(* number of entries of the role map (cycles and self-mappings included).  *)
(***************************************************************************)
C2_WalkBounded ==
    steps <= Cardinality(DOMAIN roleMap)

\* A walk through a cycle that used every entry of a map of two or more entries.
C2_Witness ==
    /\ pc = "resolved"
    /\ Cardinality(DOMAIN roleMap) >= 2
    /\ steps = Cardinality(DOMAIN roleMap)
    /\ current \in seen

(***************************************************************************)
(* The attribute cascade: src/src/attribute_mapper.ts.                     *)
(*                                                                         *)
(* An attribute dictionary is [O |-> owner, e |-> entries], entries a      *)
(* function from the keys the dictionary holds to their values, a PDF name *)
(* Name(s) or a PDF number Num(n).  A Map<string, string> is the sequence  *)
(* of its <<key, value>> pairs in insertion order.                         *)
(***************************************************************************)
Name(s) == <<"name", s>>
Num(n) == <<"num", n>>
Undefined == <<"undefined">>

\* attrDict.get(key)
Get(d, key) == IF key \in DOMAIN d.e THEN d.e[key] ELSE Undefined

\* JavaScript truthiness of the values the model uses.
Truthy(v) == v # Undefined /\ v # Name("") /\ v # Num(0)

\* name.toLowerCase() on the names the model uses.
ToLowerCase(name) ==
    CASE name = "Center"      -> "center"
      [] name = "Right"       -> "right"
      [] name = "Inline"      -> "inline"
      [] name = "Block"       -> "block"
      [] name = "Before"      -> "before"
      [] name = "Decimal"     -> "decimal"
      [] name = "Description" -> "description"
      [] name = "Row"         -> "row"
      [] name = "Label"       -> "label"
      [] name = "TextAlign"   -> "textalign"
      [] name = "StartIndent" -> "startindent"
      [] name = "SpaceBefore" -> "spacebefore"
      [] name = "Placement"   -> "placement"
      [] name = "ListNumbering" -> "listnumbering"
      [] name = "DIV"         -> "div"
      [] name = "ColSpan"     -> "colspan"
      [] OTHER                -> name

\* `${n}px` of a number
Px(v) == <<v[2], "px">>

\* String(value)
String(v) == <<"String", v[2]>>

\* value.toLowerCase() of a name
Lower(v) == ToLowerCase(v[2])

\* owner?.startsWith(prefix) on the owners the model uses ("" is an absent O).
StartsWith(owner, prefix) ==
    \/ prefix = "HTML" /\ owner \in {"HTML-4.01", "HTML-1.00"}
    \/ prefix = "CSS"  /\ owner \in {"CSS-2.00", "CSS-1.00"}
    \/ prefix = "ARIA" /\ owner \in {"ARIA-1.1", "ARIA"}

\* Map.prototype.set: the value of an existing key is replaced in place, a
\* new key is appended.
MapSet(m, k, v) ==
    IF \E i \in 1..Len(m) : m[i][1] = k
    THEN [i \in 1..Len(m) |-> IF m[i][1] = k THEN <<k, v>> ELSE m[i]]
    ELSE Append(m, <<k, v>>)

MapGet(m, k) == m[CHOOSE i \in 1..Len(m) : m[i][1] = k][2]

\* A sequence of cssMap.set / attrMap.set calls, in order.
RECURSIVE ApplyWrites(_, _)
ApplyWrites(m, ws) ==
    IF ws = <<>> THEN m
    ELSE ApplyWrites(MapSet(m, ws[1][1], ws[1][2]), Tail(ws))

\* The array an owner's dictionary is pushed to: the if/else chain of
\* getHTMLAttributes and the one of getCSSProperties.
HTMLBucket(owner) ==
    IF owner = "List" THEN "listAttrs"
    ELSE IF owner = "Table" THEN "tableAttrs"
    ELSE IF owner = "Layout" THEN "layoutAttrs"
    ELSE IF StartsWith(owner, "HTML") THEN "htmlAttrs"
    ELSE IF StartsWith(owner, "CSS") THEN "cssAttrs"
    ELSE IF owner = "ARIA" \/ StartsWith(owner, "ARIA") THEN "ariaAttrs"
    ELSE "unknownAttrs"

CSSBucket(owner) ==
    IF owner = "List" THEN "listAttrs"
    ELSE IF owner = "Table" THEN "tableAttrs"
    ELSE IF owner = "Layout" THEN "layoutAttrs"
    ELSE IF StartsWith(owner, "CSS") THEN "cssAttrs"
    ELSE "unknownAttrs"

\* The dictionaries pushed to one array, in declaration order.
HTMLDicts(attrList, bucket) == SelectSeq(attrList, LAMBDA d : HTMLBucket(d.O) = bucket)
CSSDicts(attrList, bucket) == SelectSeq(attrList, LAMBDA d : CSSBucket(d.O) = bucket)

\* (attrDict.get("ListNumbering") as Name | undefined)?.name, "" when absent
NameOfListNumbering(d) ==
    IF Get(d, "ListNumbering") = Undefined THEN "" ELSE Get(d, "ListNumbering")[2]

\* The list-style-type of a ListNumbering name.
ListStyleType ==
    [name \in {"Disc", "Circle", "Square", "Decimal",
               "UpperRoman", "LowerRoman", "UpperAlpha", "LowerAlpha"} |->
        CASE name = "Disc"       -> "disc"
          [] name = "Circle"     -> "circle"
          [] name = "Square"     -> "square"
          [] name = "Decimal"    -> "decimal"
          [] name = "UpperRoman" -> "upper-roman"
          [] name = "LowerRoman" -> "lower-roman"
          [] name = "UpperAlpha" -> "upper-alpha"
          [] name = "LowerAlpha" -> "lower-alpha"]

\* processCSSFromList, one dictionary: StartIndent, then ListNumbering.
ListCSSWrites(d) ==
    (IF Get(d, "StartIndent") # Undefined
     THEN << <<"margin-left", Px(Get(d, "StartIndent"))>> >> ELSE <<>>)
    \o
    (IF NameOfListNumbering(d) \in DOMAIN ListStyleType
     THEN << <<"list-style-type", ListStyleType[NameOfListNumbering(d)]>> >> ELSE <<>>)

\* processLayoutCSSProperties, one dictionary: the cssMap.set calls it
\* makes, in the order of the code, for the attributes the model uses
\* (TextAlign, SpaceBefore, SpaceAfter, StartIndent, EndIndent, Width,
\* Placement).
LayoutCSSWrites(d) ==
    (IF Truthy(Get(d, "TextAlign"))
     THEN << <<"text-align", Lower(Get(d, "TextAlign"))>> >> ELSE <<>>)
    \o
    (IF Get(d, "SpaceBefore") # Undefined
     THEN << <<"display", "block">>, <<"margin-top", Px(Get(d, "SpaceBefore"))>> >> ELSE <<>>)
    \o
    (IF Get(d, "SpaceAfter") # Undefined
     THEN << <<"display", "block">>, <<"margin-bottom", Px(Get(d, "SpaceAfter"))>> >> ELSE <<>>)
    \o
    (IF Get(d, "StartIndent") # Undefined
     THEN << <<"display", "block">>, <<"margin-left", Px(Get(d, "StartIndent"))>> >> ELSE <<>>)
    \o
    (IF Get(d, "EndIndent") # Undefined
     THEN << <<"display", "block">>, <<"margin-right", Px(Get(d, "EndIndent"))>> >> ELSE <<>>)
    \o
    (IF Get(d, "Width") # Undefined
     THEN << <<"width", Px(Get(d, "Width"))>> >> ELSE <<>>)
    \o
    (LET placement == Get(d, "Placement")
     IN  IF ~Truthy(placement) THEN <<>>
         ELSE CASE placement = Name("Block")  -> << <<"display", "block">> >>
                [] placement = Name("Inline") -> << <<"display", "inline">> >>
                [] placement = Name("Before") -> << <<"float", "left">>, <<"clear", "both">> >>
                [] placement = Name("Start")  -> << <<"float", "left">> >>
                [] placement = Name("End")    -> << <<"float", "right">> >>
                [] OTHER                -> <<>>)

\* for (const attrDict of attrList) { ... } of the CSS handlers.
RECURSIVE processCSSFromList(_, _)
processCSSFromList(attrList, m) ==
    IF attrList = <<>> THEN m
    ELSE processCSSFromList(Tail(attrList), ApplyWrites(m, ListCSSWrites(attrList[1])))

processCSSFromTable(attrList, m) == m

RECURSIVE processCSSFromLayout(_, _)
processCSSFromLayout(attrList, m) ==
    IF attrList = <<>> THEN m
    ELSE processCSSFromLayout(Tail(attrList), ApplyWrites(m, LayoutCSSWrites(attrList[1])))

processCSSFromCSS(attrList, m) == processCSSFromLayout(attrList, m)

\* getCSSProperties with the dictionaries applied in array order, each by the
\* handler of its owner, without the partition by owner.
RECURSIVE CSSInArrayOrder(_, _)
CSSInArrayOrder(attrList, m) ==
    IF attrList = <<>> THEN m
    ELSE LET d == attrList[1]
             m1 == IF d.O = "List" THEN processCSSFromList(<<d>>, m)
                   ELSE IF d.O = "Layout" \/ StartsWith(d.O, "CSS")
                   THEN processCSSFromLayout(<<d>>, m)
                   ELSE m
         IN  CSSInArrayOrder(Tail(attrList), m1)

getCSSPropertiesArrayOrder(attrList) == CSSInArrayOrder(attrList, <<>>)

\* getCSSProperties: the cssMap it builds (the returned string lists its
\* entries in order).
getCSSProperties(attrList) ==
    LET listAttrs    == CSSDicts(attrList, "listAttrs")
        tableAttrs   == CSSDicts(attrList, "tableAttrs")
        layoutAttrs  == CSSDicts(attrList, "layoutAttrs")
        cssAttrs     == CSSDicts(attrList, "cssAttrs")
        unknownAttrs == CSSDicts(attrList, "unknownAttrs")
        m1 == processCSSFromList(listAttrs, <<>>)
        m2 == processCSSFromTable(tableAttrs \o unknownAttrs, m1)
        m3 == processCSSFromLayout(layoutAttrs, m2)
    IN  processCSSFromCSS(cssAttrs, m3)

\* processListAttributes, one dictionary.
ListHTMLWrites(d) ==
    IF Truthy(Get(d, "ListNumbering"))
    THEN << <<"data-list-numbering", Lower(Get(d, "ListNumbering"))>> >> ELSE <<>>

\* processTableAttributes, one dictionary: ColSpan, Scope, Short, Summary.
TableHTMLWrites(d) ==
    (IF Truthy(Get(d, "ColSpan"))
     THEN << <<"colspan", String(Get(d, "ColSpan"))>> >> ELSE <<>>)
    \o
    (IF Truthy(Get(d, "Scope"))
     THEN << <<"scope", Lower(Get(d, "Scope"))>> >> ELSE <<>>)
    \o
    (IF Truthy(Get(d, "Short"))
     THEN << <<"abbr", String(Get(d, "Short"))>> >> ELSE <<>>)
    \o
    (IF Truthy(Get(d, "Summary"))
     THEN << <<"abbr", String(Get(d, "Summary"))>> >> ELSE <<>>)

\* processLayoutAttributesForHTML, one dictionary.
LayoutHTMLWrites(d) ==
    IF Truthy(Get(d, "Placement"))
    THEN << <<"data-placement", Lower(Get(d, "Placement"))>> >> ELSE <<>>

\* The keys of a dictionary in the order getKeys() lists them.
RECURSIVE KeysInOrder(_, _)
KeysInOrder(d, order) ==
    IF order = <<>> THEN <<>>
    ELSE (IF order[1] \in DOMAIN d.e THEN <<order[1]>> ELSE <<>>)
         \o KeysInOrder(d, Tail(order))

KeyOrder == <<"ColSpan", "ListNumbering", "Placement", "SpaceBefore", "StartIndent", "TextAlign">>

\* `data-html-${key.toLowerCase()}` and `aria-${key.toLowerCase()}`
DataHtmlName(key) ==
    CASE key = "ColSpan"       -> "data-html-colspan"
      [] key = "ListNumbering" -> "data-html-listnumbering"
      [] key = "Placement"     -> "data-html-placement"
      [] key = "SpaceBefore"   -> "data-html-spacebefore"
      [] key = "StartIndent"   -> "data-html-startindent"
      [] key = "TextAlign"     -> "data-html-textalign"

AriaName(key) ==
    CASE key = "ColSpan"       -> "aria-colspan"
      [] key = "ListNumbering" -> "aria-listnumbering"
      [] key = "Placement"     -> "aria-placement"
      [] key = "SpaceBefore"   -> "aria-spacebefore"
      [] key = "StartIndent"   -> "aria-startindent"
      [] key = "TextAlign"     -> "aria-textalign"

\* processHTMLAttributes, one dictionary: every key but O, as data-html-<key>.
HTMLHTMLWrites(d) ==
    LET ks == KeysInOrder(d, KeyOrder)
    IN  [i \in 1..Len(ks) |-> <<DataHtmlName(ks[i]), String(Get(d, ks[i]))>>]

\* processARIAAttributes, one dictionary: every key but O, as aria-<key>.
ARIAHTMLWrites(d) ==
    LET ks == KeysInOrder(d, KeyOrder)
    IN  [i \in 1..Len(ks) |-> <<AriaName(ks[i]), String(Get(d, ks[i]))>>]

\* The handlers of getHTMLAttributes: one pass over their array each.
RECURSIVE processListAttributes(_, _)
processListAttributes(attrList, m) ==
    IF attrList = <<>> THEN m
    ELSE processListAttributes(Tail(attrList), ApplyWrites(m, ListHTMLWrites(attrList[1])))

RECURSIVE processTableAttributes(_, _)
processTableAttributes(attrList, m) ==
    IF attrList = <<>> THEN m
    ELSE processTableAttributes(Tail(attrList), ApplyWrites(m, TableHTMLWrites(attrList[1])))

RECURSIVE processLayoutAttributesForHTML(_, _)
processLayoutAttributesForHTML(attrList, m) ==
    IF attrList = <<>> THEN m
    ELSE processLayoutAttributesForHTML(Tail(attrList),
                                        ApplyWrites(m, LayoutHTMLWrites(attrList[1])))

RECURSIVE processHTMLAttributes(_, _)
processHTMLAttributes(attrList, m) ==
    IF attrList = <<>> THEN m
    ELSE processHTMLAttributes(Tail(attrList), ApplyWrites(m, HTMLHTMLWrites(attrList[1])))

processCSSAttributesForHTML(attrList, m) == m

RECURSIVE processARIAAttributes(_, _)
processARIAAttributes(attrList, m) ==
    IF attrList = <<>> THEN m
    ELSE processARIAAttributes(Tail(attrList), ApplyWrites(m, ARIAHTMLWrites(attrList[1])))

\* getHTMLAttributes: the attrMap it builds.
getHTMLAttributes(attrList) ==
    LET listAttrs    == HTMLDicts(attrList, "listAttrs")
        tableAttrs   == HTMLDicts(attrList, "tableAttrs")
        layoutAttrs  == HTMLDicts(attrList, "layoutAttrs")
        htmlAttrs    == HTMLDicts(attrList, "htmlAttrs")
        cssAttrs     == HTMLDicts(attrList, "cssAttrs")
        ariaAttrs    == HTMLDicts(attrList, "ariaAttrs")
        unknownAttrs == HTMLDicts(attrList, "unknownAttrs")
        m1 == processListAttributes(listAttrs, <<>>)
        m2 == processTableAttributes(tableAttrs \o unknownAttrs, m1)
        m3 == processLayoutAttributesForHTML(layoutAttrs, m2)
        m4 == processHTMLAttributes(htmlAttrs, m3)
        m5 == processCSSAttributesForHTML(cssAttrs, m4)
    IN  processARIAAttributes(ariaAttrs, m5)

(***************************************************************************)
(* Inputs of the attribute cascade.                                        *)
(***************************************************************************)
Owners == {"List", "Table", "Layout", "HTML-4.01", "CSS-2.00", "ARIA-1.1", "UserProperties"}

\* The entries of the dictionaries: one key, or two keys that write the same
\* CSS property.
AttrEntries ==
    { [k \in {"TextAlign"} |-> Name(v)] : v \in {"Center", "Right"} }
    \cup { [k \in {"StartIndent"} |-> Num(v)] : v \in {0, 12} }
    \cup { [k \in {"ColSpan"} |-> Num(v)] : v \in {0, 2} }
    \cup { [k \in {"ListNumbering"} |-> Name(v)] : v \in {"Decimal"} }
    \cup { [k \in {"Placement"} |-> Name(v)] : v \in {"Before"} }
    \cup { [k \in {"SpaceBefore", "Placement"} |->
              IF k = "SpaceBefore" THEN Num(6) ELSE Name("Inline")] }

AttrDicts == { [O |-> o, e |-> e] : o \in Owners, e \in AttrEntries }

AttrArrays == UNION { [1..n -> AttrDicts] : n \in 0..MaxAttrDicts }

InitAttr ==
    /\ pc = "input"
    /\ roleMap = <<>>
    /\ RoleIdle
    /\ TreeIdle
    /\ RunIdle
    /\ TextIdle
    /\ SvgIdle
    /\ ExtractIdle
    /\ LinkIdle
    /\ attributes \in AttrArrays
    /\ cssMap = <<>>
    /\ attrMap = <<>>

\* const attrs = getHTMLAttributes(attributes, ...)
GetHTMLAttributes ==
    /\ pc = "input"
    /\ attrMap' = getHTMLAttributes(attributes)
    /\ pc' = "attrs"
    /\ UNCHANGED <<roleMap, roleVars, attributes, cssMap, treeVars, runVars, extractVars, linkVars, textVars, svgVars>>

\* let style = getCSSProperties(attributes)
GetCSSProperties ==
    /\ pc = "attrs"
    /\ cssMap' = getCSSProperties(attributes)
    /\ pc' = "style"
    /\ UNCHANGED <<roleMap, roleVars, attributes, attrMap, treeVars, runVars, extractVars, linkVars, textVars, svgVars>>

NextAttr == GetHTMLAttributes \/ GetCSSProperties

SpecAttr == InitAttr /\ [][NextAttr]_vars

(***************************************************************************)
(* C9: when dictionaries of two owner categories write the same output     *)
(* key, the value of the category later in List < Table < Layout < HTML <  *)
(* CSS < ARIA is the resolved one, wherever the dictionaries stand in the  *)
(* array; within one category the later dictionary wins.                   *)
(***************************************************************************)
\* The category of an owner, by the documented convention (0: none).
CategoryRank(owner) ==
    CASE owner = "List"              -> 1
      [] owner = "Table"             -> 2
      [] owner = "Layout"            -> 3
      [] StartsWith(owner, "HTML")   -> 4
      [] StartsWith(owner, "CSS")    -> 5
      [] StartsWith(owner, "ARIA")   -> 6
      [] OTHER                       -> 0

\* What one dictionary writes to the CSS properties / the HTML attributes.
CSSWritesOf(d) ==
    CASE d.O = "List"                               -> ListCSSWrites(d)
      [] d.O = "Layout" \/ CategoryRank(d.O) = 5    -> LayoutCSSWrites(d)
      [] OTHER                                      -> <<>>

HTMLWritesOf(d) ==
    CASE CategoryRank(d.O) = 1 -> ListHTMLWrites(d)
      [] CategoryRank(d.O) \in {0, 2} -> TableHTMLWrites(d)
      [] CategoryRank(d.O) = 3 -> LayoutHTMLWrites(d)
      [] CategoryRank(d.O) = 4 -> HTMLHTMLWrites(d)
      [] CategoryRank(d.O) = 6 -> ARIAHTMLWrites(d)
      [] OTHER                 -> <<>>

WritesKey(ws, k) == \E j \in 1..Len(ws) : ws[j][1] = k
LastWritten(ws, k) == ws[CHOOSE j \in 1..Len(ws) :
                           ws[j][1] = k /\ \A l \in (j+1)..Len(ws) : ws[l][1] # k][2]

\* Dictionary i comes before dictionary j in the cascade.
CascadeBefore(i, j) ==
    \/ CategoryRank(attributes[i].O) < CategoryRank(attributes[j].O)
    \/ CategoryRank(attributes[i].O) = CategoryRank(attributes[j].O) /\ i < j

WritesOf(map, d) == IF map = "style" THEN CSSWritesOf(d) ELSE HTMLWritesOf(d)

CascadeHolds(m, map) ==
    \A k \in {m[i][1] : i \in 1..Len(m)} :
        LET writers == {i \in 1..Len(attributes) : WritesKey(WritesOf(map, attributes[i]), k)}
        IN  (\A i \in writers : CategoryRank(attributes[i].O) # 0)
            => \E w \in writers :
                  /\ \A i \in writers \ {w} : CascadeBefore(i, w)
                  /\ MapGet(m, k) = LastWritten(WritesOf(map, attributes[w]), k)

\* C9: for every output key of the resolved style and of the resolved HTML
\* attributes whose writers all belong to the six categories, the resolved
\* value is the one written by the writer of the latest category (the latest
\* dictionary of that category), whatever the order of the array.
C9_CascadePriority ==
    /\ pc = "style" => CascadeHolds(cssMap, "style")
    /\ pc \in {"attrs", "style"} => CascadeHolds(attrMap, "attrs")

\* A CSS-category dictionary placed before a Layout dictionary in the array,
\* both writing text-align with different values: the CSS value is resolved.
C9_Witness ==
    /\ pc = "style"
    /\ Len(attributes) = 2
    /\ attributes[1].O = "CSS-2.00" /\ Get(attributes[1], "TextAlign") = Name("Right")
    /\ attributes[2].O = "Layout" /\ Get(attributes[2], "TextAlign") = Name("Center")
    /\ MapGet(cssMap, "text-align") = "right"


(***************************************************************************)
(* The structure-tree traversal: src/src/structure_traversal.ts.           *)
(*                                                                         *)
(* A string of text is a sequence of one-character strings.  Markup is a  *)
(* sequence of tokens:                                                     *)
(*   "open"    <tag attrs>          "close"  </tag>                       *)
(*   "void"    <tag attrs/>         "text"   escaped characters           *)
(*   "comment" <!-- MCID n (No Page) -->                                   *)
(*   "raw"     the content of an associated file                           *)
(* A token also records where it comes from (not part of the string): the  *)
(* object number of the structure element that produced it (0: none) and   *)
(* the marked-content identifier of a text run (-1: none).                 *)
(***************************************************************************)
Token(t, tag, attrs, node, mcid, s) ==
    [t |-> t, tag |-> tag, attrs |-> attrs, node |-> node, mcid |-> mcid, s |-> s]

OpenTag(tag, attrs, node) == Token("open", tag, attrs, node, -1, <<>>)
CloseTag(tag, node) == Token("close", tag, <<>>, node, -1, <<>>)
VoidTag(tag, attrs, node) == Token("void", tag, attrs, node, -1, <<>>)

\* Escaped text appended to html; the empty string appends nothing.
TextRun(chars, mcid) == IF chars = <<>> THEN <<>> ELSE <<Token("text", "", <<>>, 0, mcid, chars)>>

\* escapeHtml, one character.
EscapeChar(c) ==
    CASE c = "&"  -> <<"&", "a", "m", "p", ";">>
      [] c = "<"  -> <<"&", "l", "t", ";">>
      [] c = ">"  -> <<"&", "g", "t", ";">>
      [] c = "\"" -> <<"&", "q", "u", "o", "t", ";">>
      [] c = "'"  -> <<"&", "#", "0", "3", "9", ";">>
      [] OTHER    -> <<c>>

RECURSIVE escapeHtml(_)
escapeHtml(unsafe) ==
    IF unsafe = <<>> THEN <<>> ELSE EscapeChar(Head(unsafe)) \o escapeHtml(Tail(unsafe))

\* escapeHtml of a type name, a tag name or a keyword: the names of the model
\* hold none of & < > " ', which are the only characters escapeHtml changes.
EscapeName(name) == name

\* \s, [A-Za-z0-9] and the punctuation classes of shouldInsertInlineSpace.
Whitespace == {" ", "\t", "\n", "\r"}
Letters ==
    {"a", "b", "c", "d", "e", "f", "g", "h", "i", "j", "k", "l", "m",
     "n", "o", "p", "q", "r", "s", "t", "u", "v", "w", "x", "y", "z",
     "A", "B", "C", "D", "E", "F", "G", "H", "I", "J", "K", "L", "M",
     "N", "O", "P", "Q", "R", "S", "T", "U", "V", "W", "X", "Y", "Z"}
isWordChar(ch) == ch \in Letters \cup Digits
SentencePunctuation == {":", ";", ".", "!", "?"}
OpeningPunctuation == {"(", "[", "{", "\"", "'", "/", "-"}
ClosingPunctuation == {"]", ")", "}", ".", ",", ";", ":", "!", "?", "%"}

hasVisibleText(text) == \E i \in 1..Len(text) : text[i] \notin Whitespace
hasLeadingWhitespace(text) == text # <<>> /\ text[1] \in Whitespace
hasTrailingWhitespace(text) == text # <<>> /\ text[Len(text)] \in Whitespace

getFirstVisibleChar(text) ==
    text[CHOOSE i \in 1..Len(text) :
            text[i] \notin Whitespace /\ \A j \in 1..(i-1) : text[j] \in Whitespace]

getLastVisibleChar(text) ==
    text[CHOOSE i \in 1..Len(text) :
            text[i] \notin Whitespace /\ \A j \in (i+1)..Len(text) : text[j] \in Whitespace]

\* splitEdgeWhitespace(text).core
RECURSIVE TrimStart(_)
TrimStart(text) ==
    IF text # <<>> /\ Head(text) \in Whitespace THEN TrimStart(Tail(text)) ELSE text

RECURSIVE TrimEnd(_)
TrimEnd(text) ==
    IF text # <<>> /\ text[Len(text)] \in Whitespace
    THEN TrimEnd(SubSeq(text, 1, Len(text) - 1)) ELSE text

EdgeCore(text) == TrimEnd(TrimStart(text))

\* isHeadingRoleName(role); an undefined role is "".
isHeadingRoleName(role) ==
    /\ role # ""
    /\ (role \in {"H", "Hn", "Title"} \/ MatchesHeadingPattern(role))

inlineTypes ==
    {"Span", "Quote", "Reference", "BibEntry", "Code", "Link",
     "Annot", "Ruby", "RB", "RT", "RP", "Warichu", "WT", "WP",
     "P", "H", "H1", "H2", "H3", "H4", "H5", "H6",
     "Em", "Strong", "Sub", "Sup", "TH", "TD"}

isInlineContext(parentRole) ==
    /\ parentRole # ""
    /\ (isHeadingRoleName(parentRole) \/ parentRole \in inlineTypes)

shouldInsertInlineSpace(parentRole, childRole, prevText, nextText, prevHadActualText, nextHasActualText, nextRootTag) ==
    /\ isInlineContext(parentRole)
    /\ prevText # <<>> /\ nextText # <<>>
    /\ childRole \notin {"Sup", "Sub"}
    /\ nextRootTag \notin {"sup", "sub"}
    /\ hasVisibleText(prevText) /\ hasVisibleText(nextText)
    /\ ~hasTrailingWhitespace(prevText) /\ ~hasLeadingWhitespace(nextText)
    /\ LET prevChar == getLastVisibleChar(prevText)
           nextChar == getFirstVisibleChar(nextText)
       IN  /\ prevHadActualText \/ nextHasActualText \/ prevChar \in SentencePunctuation
           /\ prevChar \notin OpeningPunctuation
           /\ nextChar \notin ClosingPunctuation
           /\ isWordChar(nextChar)

\* mapRoleToTag(role, parentRole)
mapRoleToTag(role, parentRole) ==
    IF role = "P" /\ isHeadingRoleName(parentRole) THEN "span"
    ELSE CASE role \in {"Document", "Part", "Div", "NonStruct", "Private",
                        "DocumentFragment", "LBody", "Form"} -> "div"
           [] role \in {"Sect", "Index"}  -> "section"
           [] role = "Art"                -> "article"
           [] role \in {"Aside", "FENote"} -> "aside"
           [] role \in {"Note", "P", "BibEntry"} -> "p"
           [] role \in {"Title", "H1"}    -> "h1"
           [] role \in {"H", "H2"}        -> "h2"
           [] role = "H3"                 -> "h3"
           [] role = "H4"                 -> "h4"
           [] role = "H5"                 -> "h5"
           [] role = "H6"                 -> "h6"
           [] role = "BlockQuote"         -> "blockquote"
           [] role = "Caption"            ->
                IF parentRole = "Table" THEN "caption"
                ELSE IF parentRole \in {"Figure", "Formula"} THEN "figcaption"
                ELSE "caption"
           [] role = "TOC"                -> "ol"
           [] role = "L"                  -> "ul"
           [] role \in {"TOCI", "LI"}     -> "li"
           [] role \in {"Lbl", "Span", "Warichu", "WT", "WP", "Annot"} -> "span"
           [] role = "Table"              -> "table"
           [] role = "TR"                 -> "tr"
           [] role = "TH"                 -> "th"
           [] role = "TD"                 -> "td"
           [] role = "THead"              -> "thead"
           [] role = "TBody"              -> "tbody"
           [] role = "TFoot"              -> "tfoot"
           [] role = "Quote"              -> "q"
           [] role = "Code"               -> "code"
           [] role = "Em"                 -> "em"
           [] role = "Strong"             -> "strong"
           [] role = "Sub"                -> "sub"
           [] role = "Sup"                -> "sup"
           [] role \in {"Link", "Reference"} -> "a"
           [] role = "Ruby"               -> "ruby"
           [] role = "RB"                 -> "rb"
           [] role = "RT"                 -> "rt"
           [] role = "RP"                 -> "rp"
           [] role \in {"Figure", "Formula"} ->
                IF isInlineContext(parentRole) THEN "span" ELSE "figure"
           [] OTHER                       -> "div"


(***************************************************************************)
(* Structure elements.  A structure element dictionary is a record         *)
(*   S, NS       structure type and namespace URI ("" when absent)         *)
(*   K, KArr     the kids; KArr says whether K is an array (K = <<>> with  *)
(*               KArr = FALSE is an absent K)                              *)
(*   A           the attribute dictionaries                                *)
(*   ID, E       identifier and expansion text ("" when absent)            *)
(*   ActualText  [has |-> the entry exists, s |-> its characters]          *)
(*   AF          the associated files: [rel |-> AFRelationship,            *)
(*               content |-> name of the markup the file converts to]      *)
(*   Pg          page object number (0 when absent)                        *)
(*   URI         the URI of a URI action in A ("" when absent)             *)
(* A kid is <<"ref", object number>> or <<"mcid", number>>.                *)
(***************************************************************************)
NoActualText == [has |-> FALSE, s |-> <<>>]
ActualTextOf(chars) == [has |-> TRUE, s |-> chars]

\* extractor.getText(mcid) on the page of the model.
pageText(mcid) ==
    CASE mcid = 0 -> <<"a">>
      [] mcid = 1 -> <<"b", ".">>
      [] mcid = 2 -> <<"3", ".">>
      [] mcid = 3 -> <<" ", "<", "c">>
      [] mcid = 4 -> <<"i", "v", ")">>
      [] OTHER    -> <<>>

\* xref.fetchIfRef(childOrRef) is a dictionary.
IsElem(childOrRef) == childOrRef[1] = "ref" /\ childOrRef[2] \in DOMAIN xref

\* !value of a K entry that is not an array: an absent K, or the number 0.
Falsy(k) == k = <<>> \/ k = << <<"mcid", 0>> >>

\* Array.isArray(k) ? k : k ? [k] : []  -- K is kept as a sequence either way.
KidsOf(dict) == IF ~dict.KArr /\ Falsy(dict.K) THEN <<>> ELSE dict.K

\* resolveRole(sType, roleMap, getNamespaceURI(context, dict)) of a kid that
\* is a dictionary with an S entry; "" (null) otherwise.
getElementRole(childOrRef) ==
    IF IsElem(childOrRef) /\ xref[childOrRef[2]].S # ""
    THEN resolveRole(xref[childOrRef[2]].S, roleMap, xref[childOrRef[2]].NS)
    ELSE ""

getElementInfo(childOrRef) ==
    IF IsElem(childOrRef) /\ xref[childOrRef[2]].S # ""
    THEN [role |-> getElementRole(childOrRef),
          hasActualText |-> xref[childOrRef[2]].ActualText.has]
    ELSE [role |-> "", hasActualText |-> FALSE]

\* processChildren with the children left in the order of K.
reorderCaptionElementsKeepOrder(children) == children

\* reorderCaptionElements(context, children)
reorderCaptionElements(children) ==
    SelectSeq(children, LAMBDA c : getElementRole(c) = "Caption")
    \o SelectSeq(children, LAMBDA c : getElementRole(c) # "Caption")

\* hasLinkChild(context, element)
hasLinkChild(element) ==
    \E i \in 1..Len(KidsOf(element)) : getElementRole(KidsOf(element)[i]) = "Link"

\* hasLblChildren: hasLblDescendant with its shared `seen` set.
RECURSIVE hasLblDescendant(_, _), hasLblAmong(_, _)
hasLblDescendant(n, seenDicts) ==
    IF n \in seenDicts THEN [found |-> FALSE, seen |-> seenDicts]
    ELSE LET element == xref[n]
             seen1 == seenDicts \cup {n}
         IN  IF element.S # "" /\ resolveRole(element.S, roleMap, element.NS) = "Lbl"
             THEN [found |-> TRUE, seen |-> seen1]
             ELSE hasLblAmong(KidsOf(element), seen1)

hasLblAmong(kids, seenDicts) ==
    IF kids = <<>> THEN [found |-> FALSE, seen |-> seenDicts]
    ELSE IF ~IsElem(kids[1]) THEN hasLblAmong(Tail(kids), seenDicts)
    ELSE LET r == hasLblDescendant(kids[1][2], seenDicts)
         IN  IF r.found THEN r ELSE hasLblAmong(Tail(kids), r.seen)

RECURSIVE hasLblItems(_, _, _)
hasLblItems(kids, listItemRole, seenDicts) ==
    IF kids = <<>> THEN FALSE
    ELSE IF getElementRole(kids[1]) = listItemRole
    THEN LET r == hasLblDescendant(kids[1][2], seenDicts)
         IN  r.found \/ hasLblItems(Tail(kids), listItemRole, r.seen)
    ELSE hasLblItems(Tail(kids), listItemRole, seenDicts)

hasLblChildren(listElement, listItemRole) == hasLblItems(KidsOf(listElement), listItemRole, {})

\* getAttribute(attributes, name): the first truthy value, else null.
getAttribute(attrList, name) ==
    IF \E i \in 1..Len(attrList) : Truthy(Get(attrList[i], name))
    THEN Get(attrList[CHOOSE i \in 1..Len(attrList) :
                        /\ Truthy(Get(attrList[i], name))
                        /\ \A j \in 1..(i-1) : ~Truthy(Get(attrList[j], name))], name)
    ELSE Undefined

\* The .name of a name value; "" when the value is not a name.
NameOf(v) == IF v # Undefined /\ v[1] = "name" THEN v[2] ELSE ""

\* getListNumbering(attributes, classes, structTreeRoot) of an element
\* without a C entry; "" is null.
getListNumbering(attrList) == NameOf(getAttribute(attrList, "ListNumbering"))

\* fetchTextForMCID(context, mcid, pgRef)
fetchTextForMCID(mcid, pgRef) == IF pgRef = 0 THEN <<>> ELSE pageText(mcid)

RECURSIVE getPlainTextForStructElement(_, _), getPlainTextOfKids(_, _)
getPlainTextForStructElement(elementDict, inheritedPageRef) ==
    IF elementDict.ActualText.s # <<>> THEN elementDict.ActualText.s
    ELSE getPlainTextOfKids(KidsOf(elementDict), inheritedPageRef)

getPlainTextOfKids(kids, inheritedPageRef) ==
    IF kids = <<>> THEN <<>>
    ELSE (IF kids[1] = <<"mcid", 0>> THEN <<>>   \* if (!child) continue
          ELSE IF kids[1][1] = "mcid" THEN fetchTextForMCID(kids[1][2], inheritedPageRef)
          ELSE IF ~IsElem(kids[1]) THEN <<>>
          ELSE LET childDict == xref[kids[1][2]]
                   childPgRef == IF childDict.Pg # 0 THEN childDict.Pg ELSE inheritedPageRef
               IN  getPlainTextForStructElement(childDict, childPgRef))
         \o getPlainTextOfKids(Tail(kids), inheritedPageRef)

\* text.replace(/\s+/g, " ").trim()
RECURSIVE CollapseWhitespace(_)
CollapseWhitespace(text) ==
    IF text = <<>> THEN <<>>
    ELSE IF Head(text) \in Whitespace
    THEN <<" ">> \o CollapseWhitespace(TrimStart(text))
    ELSE <<Head(text)>> \o CollapseWhitespace(Tail(text))

\* getFirstListLabelText: the text of the first Lbl kid of the first LI kid
\* that has one; <<>> is null.
FirstKidWithRole(kids, role) ==
    kids[CHOOSE i \in 1..Len(kids) :
            getElementRole(kids[i]) = role
            /\ \A j \in 1..(i-1) : getElementRole(kids[j]) # role][2]

RECURSIVE getFirstListLabelTextIn(_, _)
getFirstListLabelTextIn(kids, inheritedPageRef) ==
    IF kids = <<>> THEN <<>>
    ELSE IF getElementRole(kids[1]) # "LI"
    THEN getFirstListLabelTextIn(Tail(kids), inheritedPageRef)
    ELSE LET liKids == KidsOf(xref[kids[1][2]])
         IN  IF \E i \in 1..Len(liKids) : getElementRole(liKids[i]) = "Lbl"
             THEN LET liChildDict == xref[FirstKidWithRole(liKids, "Lbl")]
                      lblPgRef == IF liChildDict.Pg # 0 THEN liChildDict.Pg
                                  ELSE inheritedPageRef
                      text == getPlainTextForStructElement(liChildDict, lblPgRef)
                  IN  EdgeCore(CollapseWhitespace(text))
             ELSE getFirstListLabelTextIn(Tail(kids), inheritedPageRef)

getFirstListLabelText(listElement, inheritedPageRef) ==
    getFirstListLabelTextIn(KidsOf(listElement), inheritedPageRef)

\* labelText.match(class+): the first maximal run of characters of a class.
FirstRun(text, class) ==
    IF \A i \in 1..Len(text) : text[i] \notin class THEN <<>>
    ELSE LET start == CHOOSE i \in 1..Len(text) :
                         text[i] \in class /\ \A j \in 1..(i-1) : text[j] \notin class
             end == CHOOSE e \in start..Len(text) :
                         /\ \A j \in start..e : text[j] \in class
                         /\ (e = Len(text) \/ text[e+1] \notin class)
         IN  SubSeq(text, start, end)

DigitValue(c) ==
    CASE c = "0" -> 0 [] c = "1" -> 1 [] c = "2" -> 2 [] c = "3" -> 3 [] c = "4" -> 4
      [] c = "5" -> 5 [] c = "6" -> 6 [] c = "7" -> 7 [] c = "8" -> 8 [] c = "9" -> 9

\* parseInt(digits, 10) of a non-empty run of digits.
RECURSIVE DecimalValue(_)
DecimalValue(digits) ==
    IF digits = <<>> THEN 0
    ELSE 10 * DecimalValue(SubSeq(digits, 1, Len(digits) - 1)) + DigitValue(digits[Len(digits)])

\* parseListStart(labelText); 0 is null.
parseListStart(labelText) ==
    IF FirstRun(labelText, Digits) = <<>> THEN 0
    ELSE DecimalValue(FirstRun(labelText, Digits))

UpperCaseLetters ==
    {"A", "B", "C", "D", "E", "F", "G", "H", "I", "J", "K", "L", "M",
     "N", "O", "P", "Q", "R", "S", "T", "U", "V", "W", "X", "Y", "Z"}
RomanLetters == {"i", "v", "x", "l", "c", "d", "m", "I", "V", "X", "L", "C", "D", "M"}

\* parseListType(labelText); "" is null.
parseListType(labelText) ==
    LET letters == FirstRun(labelText, Letters)
        isUpper == \A i \in 1..Len(letters) : letters[i] \in UpperCaseLetters
        isRoman == \A i \in 1..Len(letters) : letters[i] \in RomanLetters
    IN  IF letters = <<>> THEN ""
        ELSE IF isRoman THEN (IF isUpper THEN "I" ELSE "i")
        ELSE (IF isUpper THEN "A" ELSE "a")

\* getStructureAssociatedFiles(context, element): the files whose
\* relationship is neither Alternative nor Supplement convert to nothing.
AFReplacement(element) ==
    LET alts == SelectSeq(element.AF, LAMBDA af : af.rel = "Alternative")
    IN  IF alts = <<>> THEN "" ELSE alts[1].content

AFSupplements(element) == SelectSeq(element.AF, LAMBDA af : af.rel = "Supplement")

\* The supplements joined, as markup produced for element n.
RECURSIVE SupplementTokens(_, _)
SupplementTokens(afs, n) ==
    IF afs = <<>> THEN <<>>
    ELSE <<Token("raw", afs[1].content, <<>>, n, -1, <<>>)>> \o SupplementTokens(Tail(afs), n)

\* extractTextFromHtml(replacement) for the associated files of the model,
\* which convert to an element holding one character.
extractTextFromHtml(content) == IF content = "" THEN <<>> ELSE <<"r">>


(***************************************************************************)
(* processStructElement, in the order of the code: the tag, the context    *)
(* handed to the children, the attributes, the content, the output.  The   *)
(* elements of the model carry no Lang, Alt, T or C entry and no Phoneme,  *)
(* Pronunciation or ContinuedFrom attribute; an element with a URI action  *)
(* has the action dictionary as its A entry, which holds no attribute.     *)
(***************************************************************************)
MathMLNamespace == "http://www.w3.org/1998/Math/MathML"
XHTMLNamespace == "http://www.w3.org/1999/xhtml"

\* traverseStructure's initial traversal context ("" is undefined).
InitialTraversalCtx ==
    [headingLevel |-> 1, parentRole |-> "", listNumbering |-> "",
     listHasLbl |-> FALSE, mathmlTokenContext |-> FALSE]

isMathMLTokenElement(tag) == ToLowerCase(tag) \in {"mi", "mn", "mo", "mtext", "ms"}

groupingRoles == {"Sect", "Div", "Art", "Aside", "Part", "DocumentFragment"}

\* value || fallback, for a number
OrElse(value, fallback) == IF value = 0 THEN fallback ELSE value

\* parseInt(chars, 10); -1 stands for NaN.
parseInt(chars) ==
    IF chars = <<>> \/ chars[1] \notin Digits THEN -1
    ELSE DecimalValue(FirstRun(chars, Digits))

\* `h${level}`
HeadingTag(level) ==
    CASE level = 1 -> "h1" [] level = 2 -> "h2" [] level = 3 -> "h3"
      [] level = 4 -> "h4" [] level = 5 -> "h5" [] level = 6 -> "h6"

\* mappedRole of a dictionary with an S entry.
mappedRoleOf(childDict) ==
    IF childDict.NS \in {MathMLNamespace, XHTMLNamespace} THEN childDict.S
    ELSE resolveRole(childDict.S, roleMap, childDict.NS)

\* The heading branch: [tag, headingAriaLevel] (0 is null) from the base tag.
HeadingOutcome(mappedRole, baseTag, traversalCtx) ==
    LET isExplicitHeading == MatchesHeadingPattern(mappedRole)
        isGenericHeading == mappedRole \in {"H", "Hn", "Title"}
        level0 == IF mappedRole = "Title" THEN 1
                  ELSE IF isExplicitHeading THEN parseInt(Tail(Spelling(mappedRole)))
                  ELSE OrElse(traversalCtx.headingLevel, 2)
        level == IF level0 <= 0 THEN OrElse(traversalCtx.headingLevel, 2) ELSE level0
    IN  IF ~(isExplicitHeading \/ isGenericHeading)
        THEN [tag |-> baseTag, headingAriaLevel |-> 0]
        ELSE IF traversalCtx.parentRole \in {"TH", "TD"}
        THEN [tag |-> "p", headingAriaLevel |-> 0]
        ELSE IF level <= 6
        THEN [tag |-> HeadingTag(level), headingAriaLevel |-> 0]
        ELSE [tag |-> "p", headingAriaLevel |-> level]

\* An LI rendered li whatever the numbering of its list.
ListItemTagAlwaysLi(listNumbering) == "li"

\* The tag of an LI.
ListItemTag(listNumbering) == IF listNumbering = "Description" THEN "div" ELSE "li"

\* The list branch: the tag.
ListTag(mappedRole, tag, childDict, traversalCtx) ==
    LET listNumbering == IF getListNumbering(childDict.A) = "" THEN "None"
                         ELSE getListNumbering(childDict.A)
    IN  CASE mappedRole = "L" ->
               IF listNumbering = "Description" THEN "dl"
               ELSE IF listNumbering # "None" THEN "ol" ELSE "ul"
          [] mappedRole = "LI" -> ListItemTag(traversalCtx.listNumbering)
          [] mappedRole = "Lbl" ->
               IF traversalCtx.parentRole = "LI"
               THEN (IF traversalCtx.listNumbering = "Description" THEN "dt" ELSE "span")
               ELSE IF traversalCtx.parentRole = "Form" THEN "label" ELSE "span"
          [] mappedRole = "LBody" ->
               IF traversalCtx.parentRole = "LI" /\ traversalCtx.listNumbering = "Description"
               THEN "dd" ELSE "div"
          [] OTHER -> tag

\* The TextPosition override.
TextPositionTag(mappedRole, tag, childDict) ==
    LET textPositionName == NameOf(getAttribute(childDict.A, "TextPosition"))
    IN  IF textPositionName = "Sup" /\ mappedRole # "Sup" THEN "sup"
        ELSE IF textPositionName = "Sub" /\ mappedRole # "Sub" THEN "sub"
        ELSE tag

\* tag and headingAriaLevel of a dictionary with an S entry.
ElementTag(childDict, traversalCtx) ==
    LET mappedRole == mappedRoleOf(childDict)
    IN  IF childDict.NS = MathMLNamespace
        THEN [tag |-> childDict.S, headingAriaLevel |-> 0]
        ELSE IF childDict.NS = XHTMLNamespace
        THEN [tag |-> ToLowerCase(childDict.S), headingAriaLevel |-> 0]
        ELSE LET h == HeadingOutcome(mappedRole,
                                     mapRoleToTag(mappedRole, traversalCtx.parentRole),
                                     traversalCtx)
                 listTag == ListTag(mappedRole, h.tag, childDict, traversalCtx)
             IN  [tag |-> TextPositionTag(mappedRole, listTag, childDict),
                  headingAriaLevel |-> h.headingAriaLevel]

\* newTraversalCtx of a dictionary with an S entry.
newTraversalCtxOf(childDict, traversalCtx) ==
    LET mappedRole == mappedRoleOf(childDict)
        isMathML == childDict.NS = MathMLNamespace
        token == isMathML /\ isMathMLTokenElement(childDict.S)
        c0 == [traversalCtx EXCEPT !.mathmlTokenContext = token]
        c1 == IF mappedRole \in groupingRoles
              THEN [c0 EXCEPT !.headingLevel = OrElse(traversalCtx.headingLevel, 1) + 1]
              ELSE c0
        listNumbering == IF getListNumbering(childDict.A) = "" THEN "None"
                         ELSE getListNumbering(childDict.A)
    IN  IF childDict.NS \in {MathMLNamespace, XHTMLNamespace} THEN c0
        ELSE CASE mappedRole = "L" ->
                    [c1 EXCEPT !.parentRole = "L",
                               !.listNumbering = listNumbering,
                               !.listHasLbl = hasLblChildren(childDict, "LI")]
               [] mappedRole = "TOC" ->
                    [c1 EXCEPT !.parentRole = "TOC",
                               !.listHasLbl = hasLblChildren(childDict, "TOCI")]
               [] mappedRole = "LI" -> [c1 EXCEPT !.parentRole = "LI"]
               [] mappedRole \in {"Lbl", "LBody"} -> c1
               [] OTHER -> [c1 EXCEPT !.parentRole = mappedRole]

\* listStart and listType of an L: [start, type] (0 and "" are null).
ListStartAndType(childDict, newTraversalCtx, inheritedPageRef) ==
    IF /\ mappedRoleOf(childDict) = "L"
       /\ childDict.NS \notin {MathMLNamespace, XHTMLNamespace}
       /\ newTraversalCtx.listHasLbl
       /\ newTraversalCtx.listNumbering \notin {"None", "Description"}
    THEN LET labelText == getFirstListLabelText(childDict, inheritedPageRef)
         IN  [start |-> parseListStart(labelText), type |-> parseListType(labelText)]
    ELSE [start |-> 0, type |-> ""]

\* dict.get("K") resolves a K entry that is one reference: processChildren
\* then hands processStructElement the dictionary, not the reference.  The
\* kids of an array stay references.
ResolvedByGet(n) ==
    \/ ~structTreeRoot.KArr /\ structTreeRoot.K = << <<"ref", n>> >>
    \/ \E p \in DOMAIN xref : ~xref[p].KArr /\ xref[p].K = << <<"ref", n>> >>

\* The id attribute: the ID entry, or ensureGeneratedId: for a reference
\* `pdf-se-${num}-${gen}`, for a dictionary `pdf-se-${idState.counter}`, the
\* counter being filled in by CounterIds once the order of the calls is known.
IdAttribute(n, dict) ==
    CASE dict.ID # "" -> <<"id", <<"ID", EscapeName(dict.ID)>>>>
      [] dict.ID = "" /\ ResolvedByGet(n) -> <<"id", <<"pdf-se-dict", n>>>>
      [] OTHER -> <<"id", <<"pdf-se", n, 0>>>>

\* The style attribute: the declarations of getCSSProperties and the ones
\* the list handling appends.
ElementStyle(childDict, mappedRole, traversalCtx, newTraversalCtx) ==
    getCSSProperties(childDict.A)
    \o (IF mappedRole \in {"L", "TOC"} /\ newTraversalCtx.listHasLbl
        THEN << <<"list-style-type", "none">> >> ELSE <<>>)
    \o (IF /\ mappedRole = "LBody" /\ traversalCtx.listHasLbl
           /\ traversalCtx.listNumbering # "Description"
        THEN << <<"display", "inline-block">>, <<"vertical-align", "top">> >> ELSE <<>>)
    \o (IF /\ mappedRole = "Lbl" /\ traversalCtx.parentRole = "LI"
           /\ traversalCtx.listNumbering # "Description"
        THEN << <<"display", "inline-block">>, <<"vertical-align", "top">>,
                <<"margin-right", "0.4em">> >> ELSE <<>>)

\* data-pdf-se-type and data-pdf-se-type-original.
TypeAttributesAlwaysOriginal(sType, mappedRole) ==
    (IF mappedRole # "" THEN << <<"data-pdf-se-type", EscapeName(mappedRole)>> >> ELSE <<>>)
    \o (IF sType # "" THEN << <<"data-pdf-se-type-original", EscapeName(sType)>> >> ELSE <<>>)

TypeAttributes(sType, mappedRole) ==
    (IF mappedRole # "" THEN << <<"data-pdf-se-type", EscapeName(mappedRole)>> >> ELSE <<>>)
    \o (IF sType # "" /\ sType # mappedRole
        THEN << <<"data-pdf-se-type-original", EscapeName(sType)>> >> ELSE <<>>)

\* attrs of processStructElement.
ElementAttrs(n, childDict, tagInfo, traversalCtx, newTraversalCtx, inheritedPageRef) ==
    LET mappedRole == mappedRoleOf(childDict)
        list == ListStartAndType(childDict, newTraversalCtx, inheritedPageRef)
        style == ElementStyle(childDict, mappedRole, traversalCtx, newTraversalCtx)
    IN  getHTMLAttributes(childDict.A)
        \o TypeAttributes(childDict.S, mappedRole)
        \o (IF tagInfo.headingAriaLevel # 0
            THEN << <<"role", "heading">>, <<"aria-level", tagInfo.headingAriaLevel>> >>
            ELSE <<>>)
        \o <<IdAttribute(n, childDict)>>
        \o (IF mappedRole = "L" /\ tagInfo.tag = "ol" /\ list.start > 1
            THEN << <<"start", list.start>> >> ELSE <<>>)
        \o (IF mappedRole = "L" /\ tagInfo.tag = "ol" /\ list.type # ""
            THEN << <<"type", list.type>> >> ELSE <<>>)
        \o (IF style # <<>> THEN << <<"style", style>> >> ELSE <<>>)

\* attrs of processLink.
LinkAttrs(n, child) ==
    LET mappedRole == IF child.S # "" THEN resolveRole(child.S, roleMap, child.NS) ELSE ""
        style == getCSSProperties(child.A)
    IN  getHTMLAttributes(child.A)
        \o TypeAttributes(child.S, mappedRole)
        \o (IF child.URI # "" THEN << <<"href", EscapeName(child.URI)>> >> ELSE <<>>)
        \o <<IdAttribute(n, child)>>
        \o (IF style # <<>> THEN << <<"style", style>> >> ELSE <<>>)

\* content wrapped in <abbr title="..."> when the element has an E entry.
WithExpansion(dict, content) ==
    IF dict.E # ""
    THEN <<OpenTag("abbr", << <<"title", EscapeName(dict.E)>> >>, 0)>>
         \o content \o <<CloseTag("abbr", 0)>>
    ELSE content

\* fetchContentForMCID for a marked-content sequence of the page of the
\* model: text only, no image, no properties, no vector operators.
fetchContentForMCID(mcid, pgRef, trimText) ==
    LET rawText == pageText(mcid)
        renderedText == IF trimText THEN EdgeCore(rawText) ELSE rawText
    IN  [html |-> TextRun(escapeHtml(renderedText), mcid),
         text |-> renderedText,
         rootTag |-> ""]

processMCID(mcid, pgRef, trimText) == fetchContentForMCID(mcid, pgRef, trimText)


(***************************************************************************)
(* processChildren, processStructElement and processLink.  A result is the *)
(* RenderedContent of the code, [html, text, rootTag] ("" is a null        *)
(* rootTag), with one more field kept for the properties: visited, the     *)
(* object numbers of the structure elements processStructElement was       *)
(* called on, in call order.                                               *)
(***************************************************************************)
\* html, text and lastChildHadActualText before the loop of processChildren.
NoChildren ==
    [html |-> <<>>, text |-> <<>>, rootTag |-> "", visited |-> <<>>,
     lastChildHadActualText |-> FALSE]

\* The body of the loop of processChildren: the output after one more child.
AppendChild(acc, parentRole, childInfo, childRendered) ==
    CASE parentRole = "L" /\ childInfo.role = "L" ->
           [html |-> acc.html \o <<OpenTag("li", <<>>, 0)>> \o childRendered.html
                     \o <<CloseTag("li", 0)>>,
            text |-> acc.text \o childRendered.text,
            rootTag |-> "",
            visited |-> acc.visited \o childRendered.visited,
            lastChildHadActualText |-> childInfo.hasActualText]
      [] parentRole # "L"
         /\ shouldInsertInlineSpace(parentRole, childInfo.role, acc.text,
                                    childRendered.text, acc.lastChildHadActualText,
                                    childInfo.hasActualText, childRendered.rootTag) ->
           [html |-> acc.html \o TextRun(<<" ">>, -1) \o childRendered.html,
            text |-> acc.text \o <<" ">> \o childRendered.text,
            rootTag |-> "",
            visited |-> acc.visited \o childRendered.visited,
            lastChildHadActualText |-> childInfo.hasActualText]
      [] OTHER ->
           [html |-> acc.html \o childRendered.html,
            text |-> acc.text \o childRendered.text,
            rootTag |-> "",
            visited |-> acc.visited \o childRendered.visited,
            lastChildHadActualText |-> childInfo.hasActualText]

\* return { html, text, rootTag: null }
ChildrenContent(r) ==
    [text |-> r.text, html |-> r.html, rootTag |-> "", visited |-> r.visited]

\* The content of an element whose ActualText is truthy.
ActualTextContent(dict) ==
    [html |-> TextRun(escapeHtml(dict.ActualText.s), -1),
     text |-> dict.ActualText.s, rootTag |-> "", visited |-> <<>>]

\* The output of an element that has neither S nor a replacement.
UntypedOutput(n, supplements, r) ==
    [text |-> r.text, html |-> r.html \o supplements, rootTag |-> "",
     visited |-> <<n>> \o r.visited]

\* The output of a Reference that holds a Link.
ReferenceOutput(n, r) ==
    [text |-> r.text, html |-> r.html, rootTag |-> "", visited |-> <<n>> \o r.visited]

\* The ways out of processStructElement for an element with content.
NonStructOutput(n, childDict, supplements, inner) ==
    [text |-> inner.text,
     html |-> WithExpansion(childDict, inner.html) \o supplements,
     rootTag |-> "", visited |-> <<n>> \o inner.visited]

SuppressedOutput(n, inner) ==
    [text |-> <<>>, html |-> <<>>, rootTag |-> "", visited |-> <<n>> \o inner.visited]

VoidOutput(n, tag, attrs, inner) ==
    [text |-> <<>>, html |-> <<VoidTag(tag, attrs, n)>>, rootTag |-> tag,
     visited |-> <<n>> \o inner.visited]

ElementOutput(n, childDict, tag, attrs, supplements, inner) ==
    [text |-> inner.text,
     html |-> <<OpenTag(tag, attrs, n)>> \o WithExpansion(childDict, inner.html)
              \o supplements \o <<CloseTag(tag, n)>>,
     rootTag |-> tag, visited |-> <<n>> \o inner.visited]

\* return { html: `<a${attrStr}>${content}</a>`, text, rootTag: "a" }
LinkOutput(n, child, attrs, inner) ==
    [text |-> inner.text,
     html |-> <<OpenTag("a", attrs, n)>> \o WithExpansion(child, inner.html)
              \o <<CloseTag("a", n)>>,
     rootTag |-> "a", visited |-> <<n>> \o inner.visited]

\* The way processStructElement takes for a kid, in the order of its tests.
ElementKind(childOrRef, traversalCtx) ==
    CASE childOrRef[1] = "mcid" -> "mcid"
      [] ~IsElem(childOrRef) -> "none"
      [] AFReplacement(xref[childOrRef[2]]) # "" -> "replacement"
      [] xref[childOrRef[2]].S = "" -> "untyped"
      [] mappedRoleOf(xref[childOrRef[2]]) = "Reference"
         /\ hasLinkChild(xref[childOrRef[2]]) -> "reference"
      [] mappedRoleOf(xref[childOrRef[2]]) = "Link" -> "link"
      [] mappedRoleOf(xref[childOrRef[2]]) = "NonStruct" -> "nonstruct"
      [] mappedRoleOf(xref[childOrRef[2]]) \in {"Private", "Artifact"} -> "suppressed"
      [] ElementTag(xref[childOrRef[2]], traversalCtx).tag \in {"img", "br", "hr", "input"} ->
           "void"
      [] OTHER -> "element"

RECURSIVE processChildren(_, _, _, _)
RECURSIVE processChildLoop(_, _, _, _)
RECURSIVE processStructElement(_, _, _)
RECURSIVE processElement(_, _, _, _, _)
RECURSIVE processLink(_, _, _, _)

\* The field lastChildHadActualText of the loop stays in the result; nothing
\* reads it.
processChildren(children, isArray, inheritedPageRef, traversalCtx) ==
    CASE isArray ->
           processChildLoop(reorderCaptionElements(children), Len(children),
                            inheritedPageRef, traversalCtx)
      [] ~isArray /\ ~Falsy(children) ->
           ChildrenContent(processStructElement(children[1], inheritedPageRef,
                                                traversalCtx))
      [] OTHER -> NoContent

\* for (const child of reordered) { ... }, up to and including child k.
processChildLoop(reordered, k, inheritedPageRef, traversalCtx) ==
    IF k = 0 THEN NoChildren
    ELSE AppendChild(processChildLoop(reordered, k - 1, inheritedPageRef, traversalCtx),
                     traversalCtx.parentRole,
                     getElementInfo(reordered[k]),
                     processStructElement(reordered[k], inheritedPageRef, traversalCtx))

processStructElement(childOrRef, inheritedPageRef, traversalCtx) ==
    CASE ElementKind(childOrRef, traversalCtx) = "mcid" /\ inheritedPageRef # 0 ->
           [processMCID(childOrRef[2], inheritedPageRef, traversalCtx.mathmlTokenContext)
              EXCEPT !.rootTag = ""] @@ [visited |-> <<>>]
      [] ElementKind(childOrRef, traversalCtx) = "mcid" /\ inheritedPageRef = 0 ->
           [html |-> <<Token("comment", "", <<>>, 0, childOrRef[2], <<>>)>>,
            text |-> <<>>, rootTag |-> "", visited |-> <<>>]
      [] ElementKind(childOrRef, traversalCtx) = "none" -> NoContent
      [] OTHER ->
           processElement(ElementKind(childOrRef, traversalCtx), childOrRef[2],
                          xref[childOrRef[2]],
                          OrElse(xref[childOrRef[2]].Pg, inheritedPageRef), traversalCtx)

\* processStructElement for a kid that is a reference to a dictionary, from
\* the associated files on.
processElement(kind, n, childDict, pageRef, traversalCtx) ==
    CASE kind = "element" ->
           ElementOutput(n, childDict, ElementTag(childDict, traversalCtx).tag,
                         ElementAttrs(n, childDict, ElementTag(childDict, traversalCtx),
                                      traversalCtx,
                                      newTraversalCtxOf(childDict, traversalCtx), pageRef),
                         SupplementTokens(AFSupplements(childDict), n),
                         IF childDict.ActualText.s # <<>>
                         THEN ActualTextContent(childDict)
                         ELSE processChildren(childDict.K, childDict.KArr, pageRef,
                                              newTraversalCtxOf(childDict, traversalCtx)))
      [] kind = "void" ->
           VoidOutput(n, ElementTag(childDict, traversalCtx).tag,
                      ElementAttrs(n, childDict, ElementTag(childDict, traversalCtx),
                                   traversalCtx,
                                   newTraversalCtxOf(childDict, traversalCtx), pageRef),
                      IF childDict.ActualText.s # <<>>
                      THEN ActualTextContent(childDict)
                      ELSE processChildren(childDict.K, childDict.KArr, pageRef,
                                           newTraversalCtxOf(childDict, traversalCtx)))
      [] kind = "suppressed" ->
           SuppressedOutput(n,
                            IF childDict.ActualText.s # <<>>
                            THEN ActualTextContent(childDict)
                            ELSE processChildren(childDict.K, childDict.KArr, pageRef,
                                                 newTraversalCtxOf(childDict, traversalCtx)))
      [] kind = "nonstruct" ->
           NonStructOutput(n, childDict, SupplementTokens(AFSupplements(childDict), n),
                           IF childDict.ActualText.s # <<>>
                           THEN ActualTextContent(childDict)
                           ELSE processChildren(childDict.K, childDict.KArr, pageRef,
                                                newTraversalCtxOf(childDict, traversalCtx)))
      [] kind = "link" ->
           processLink(n, childDict, pageRef, newTraversalCtxOf(childDict, traversalCtx))
      [] kind = "reference" ->
           ReferenceOutput(n, processChildren(childDict.K, childDict.KArr, pageRef,
                                              [newTraversalCtxOf(childDict, traversalCtx)
                                                 EXCEPT !.parentRole =
                                                            traversalCtx.parentRole]))
      [] kind = "untyped" ->
           UntypedOutput(n, SupplementTokens(AFSupplements(childDict), n),
                         processChildren(childDict.K, childDict.KArr, pageRef, traversalCtx))
      [] kind = "replacement" ->
           [html |-> <<Token("raw", AFReplacement(childDict), <<>>, n, -1, <<>>)>>
                     \o SupplementTokens(AFSupplements(childDict), n),
            text |-> extractTextFromHtml(AFReplacement(childDict)),
            rootTag |-> "", visited |-> <<n>>]

\* processLink for a Link without Dest entry and without object-reference
\* kids: href comes from the URI action of the element, if any.
processLink(n, child, inheritedPageRef, traversalCtx) ==
    LinkOutput(n, child, LinkAttrs(n, child),
               IF child.ActualText.s # <<>>
               THEN ActualTextContent(child)
               ELSE processChildren(child.K, child.KArr, inheritedPageRef, traversalCtx))

\* traverseStructure: processChildren(context, children, null,
\* { headingLevel: 1, idState })
\* The dictionaries ensureGeneratedId numbered, in the order of its calls:
\* idState.byDict.  (An element with a replacement, without S, or a Reference
\* holding a Link returns before its id attribute is built.)
RECURSIVE byDictOrder(_, _)
byDictOrder(visited, done) ==
    IF visited = <<>> THEN <<>>
    ELSE LET n == visited[1]
             numbered == /\ n \notin done
                         /\ ResolvedByGet(n)
                         /\ xref[n].ID = ""
                         /\ AFReplacement(xref[n]) = ""
                         /\ xref[n].S # ""
                         /\ ~(mappedRoleOf(xref[n]) = "Reference" /\ hasLinkChild(xref[n]))
         IN  (IF numbered THEN <<n>> ELSE <<>>)
             \o byDictOrder(Tail(visited), IF numbered THEN done \cup {n} ELSE done)

\* generated = `pdf-se-${idState.counter}`; idState.counter += 1
CounterIds(r) ==
    LET order == byDictOrder(r.visited, {})
        counterOf(n) == CHOOSE c \in 1..Len(order) : order[c] = n
        numbered(attr) == IF attr[1] = "id" /\ attr[2][1] = "pdf-se-dict"
                          THEN <<"id", <<"pdf-se", counterOf(attr[2][2])>>>> ELSE attr
    IN  [r EXCEPT !.html = [i \in DOMAIN r.html |->
                              [r.html[i] EXCEPT !.attrs = [j \in DOMAIN r.html[i].attrs |->
                                                            numbered(r.html[i].attrs[j])]]]]

traverseStructure ==
    CounterIds(processChildren(structTreeRoot.K, structTreeRoot.KArr, 0,
                               InitialTraversalCtx))


(***************************************************************************)
(* Structure trees of the model.  A tree is written as a term, [leaf, m,   *)
(* n, kids]: a marked-content kid (leaf, number m) or a structure element  *)
(* (dictionary n, kid terms); Build numbers the elements in document order *)
(* and yields the objects of xref.                                         *)
(***************************************************************************)
MaxNesting == 4
MaxSiblings == 3
MaxLinkNesting == 3

Elem(sType) ==
    [S |-> sType, NS |-> "", K |-> <<>>, KArr |-> TRUE, A |-> <<>>, ID |-> "",
     ActualText |-> NoActualText, E |-> "", AF |-> <<>>, Pg |-> 0, URI |-> ""]

MCID(mcid) == [leaf |-> TRUE, m |-> mcid, n |-> Elem(""), kids |-> <<>>]
Node(dict, kids) == [leaf |-> FALSE, m |-> -1, n |-> dict, kids |-> kids]
OnPage(term) == [term EXCEPT !.n.Pg = 1]

RECURSIVE Build(_, _), BuildKids(_, _)
Build(term, base) ==
    IF term.leaf THEN [nodes |-> <<>>, kid |-> <<"mcid", term.m>>]
    ELSE LET sub == BuildKids(term.kids, base + 1)
         IN  [nodes |-> <<[term.n EXCEPT !.K = sub.kids]>> \o sub.nodes,
              kid |-> <<"ref", base + 1>>]

BuildKids(terms, base) ==
    IF terms = <<>> THEN [nodes |-> <<>>, kids |-> <<>>]
    ELSE LET first == Build(terms[1], base)
             rest == BuildKids(Tail(terms), base + Len(first.nodes))
         IN  [nodes |-> first.nodes \o rest.nodes, kids |-> <<first.kid>> \o rest.kids]

\* The role map of the documents of the model.
TreeRoleMap ==
    [r \in {"Heading", "Cap", "Chapter"} |->
        CASE r = "Heading" -> "H" [] r = "Cap" -> "Caption" [] r = "Chapter" -> "Sect"]

\* Headings under up to MaxNesting enclosing elements.
HeadingTypes == {"H", "Hn", "Title", "H1", "H3", "H6", "H7", "H9", "Heading", "P"}
ChainTypes == {"Sect", "TD"}

RECURSIVE Chain(_, _)
Chain(types, inner) ==
    IF types = <<>> THEN inner ELSE Node(Elem(types[1]), <<Chain(Tail(types), inner)>>)

ChainsUpTo(types, depth) == UNION { [1..k -> types] : k \in 0..depth }

HeadingChain(types, h) == OnPage(Chain(types, Node(Elem(h), <<MCID(0)>>)))

\* Headings under one enclosing element of any kind, with text or with a
\* paragraph and text.
ParentTypes ==
    {"TH", "TD", "Div", "Art", "Aside", "Part", "DocumentFragment", "Chapter", "P",
     "Span", "Table", "L", "Form"}

HeadingKids == { <<MCID(0)>>, <<Node(Elem("P"), <<MCID(1)>>), MCID(0)>> }

HeadingInParent(w, h, kids) == OnPage(Node(Elem(w), <<Node(Elem(h), kids)>>))

\* Lists: an L with or without ListNumbering, whose kids are list items of
\* the shapes Lbl + LBody, LBody alone, or a nested list.
ListAttribute(numbering) ==
    IF numbering = "" THEN <<>>
    ELSE <<[O |-> "List", e |-> [k \in {"ListNumbering"} |-> Name(numbering)]]>>

List(numbering, items) == Node([Elem("L") EXCEPT !.A = ListAttribute(numbering)], items)

ListItems ==
    { Node(Elem("LI"), <<Node(Elem("Lbl"), <<MCID(2)>>), Node(Elem("LBody"), <<MCID(0)>>)>>),
      Node(Elem("LI"), <<Node(Elem("Lbl"), <<MCID(4)>>), Node(Elem("LBody"), <<MCID(1)>>)>>),
      Node(Elem("LI"), <<Node(Elem("LBody"), <<MCID(0)>>)>>),
      Node(Elem("LI"),
           <<List("Description",
                  <<Node(Elem("LI"), <<Node(Elem("Lbl"), <<MCID(0)>>),
                                       Node(Elem("LBody"), <<MCID(1)>>)>>)>>)>>),
      List("", <<Node(Elem("LI"), <<Node(Elem("LBody"), <<MCID(3)>>)>>)>>) }

ListNumberings == {"", "Decimal", "Description"}

\* Links and references nested in one another.
LinkTypes == {"Reference", "Link", "Span"}

LinkChain(types) == OnPage(Node(Elem("P"), <<MCID(1), Chain(types, MCID(0))>>))

ReferenceWithLink(uri) ==
    OnPage(Node(Elem("P"),
                <<Node(Elem("Reference"),
                       <<Node(Elem("Lbl"), <<MCID(0)>>),
                         Node([Elem("Link") EXCEPT !.URI = uri], <<MCID(1)>>)>>)>>))

\* One element of any kind with or without ActualText, expansion text and
\* associated files, holding text or another element.
DecoratedTypes ==
    {"P", "Span", "Link", "Reference", "Artifact", "Private", "NonStruct", "Figure", ""}

ActualTexts == {NoActualText, ActualTextOf(<<>>), ActualTextOf(<<"x", "<", "y">>)}

AssociatedFiles ==
    { <<>>,
      <<[rel |-> "Alternative", content |-> "alternative.html"]>>,
      <<[rel |-> "Supplement", content |-> "supplement.html"]>>,
      <<[rel |-> "Supplement", content |-> "supplement.html"],
        [rel |-> "Alternative", content |-> "alternative.html"]>>,
      <<[rel |-> "Source", content |-> "source.html"]>> }

DecoratedKids == { <<MCID(0)>>, <<Node(Elem("Link"), <<MCID(0)>>), MCID(1)>> }

DecoratedElement(s, at, e, af, kids) ==
    OnPage(Node(Elem("Sect"),
                <<Node([Elem(s) EXCEPT !.ActualText = at, !.E = e, !.AF = af], kids)>>))

\* Siblings in an array-valued K: text, paragraphs, captions (by type or by
\* role map), figures holding a caption after their content.
SiblingTerms ==
    { MCID(3),
      Node(Elem("P"), <<MCID(1)>>),
      Node(Elem("Caption"), <<MCID(0)>>),
      Node(Elem("Cap"), <<MCID(2)>>),
      Node(Elem("Figure"), <<Node(Elem("P"), <<MCID(0)>>), Node(Elem("Caption"), <<MCID(1)>>)>>),
      Node([Elem("Span") EXCEPT !.ActualText = ActualTextOf(<<"x">>)], <<MCID(0)>>) }

SiblingParents == {"Table", "Figure", "P", ""}

\* Elements whose K is one kid, not an array; an element without page; an
\* element of the MathML namespace; an element of the HTML namespace; a
\* MathML element whose type the role map maps; a superscript by attribute; an
\* element with an explicit ID; tables with a caption, holding a table or not.
OtherTrees ==
    { OnPage(Node([Elem("Table") EXCEPT !.KArr = FALSE], <<Node(Elem("Caption"), <<MCID(0)>>)>>)),
      OnPage(Node([Elem("P") EXCEPT !.KArr = FALSE], <<MCID(3)>>)),
      OnPage(Node([Elem("P") EXCEPT !.KArr = FALSE], <<MCID(0)>>)),
      OnPage(Node([Elem("L") EXCEPT !.KArr = FALSE],
                  <<Node(Elem("LI"), <<Node([Elem("Lbl") EXCEPT !.KArr = FALSE], <<MCID(0)>>),
                                       Node(Elem("LBody"), <<MCID(1)>>)>>)>>)),
      OnPage(Node([Elem("L") EXCEPT !.KArr = FALSE],
                  <<List("", <<Node(Elem("LI"), <<Node(Elem("LBody"), <<MCID(3)>>)>>)>>)>>)),
      OnPage(Node([Elem("P") EXCEPT !.KArr = FALSE], <<>>)),
      Node(Elem("P"), <<MCID(0)>>),
      OnPage(Node([Elem("math") EXCEPT !.NS = MathMLNamespace],
                  <<Node([Elem("mi") EXCEPT !.NS = MathMLNamespace], <<MCID(3)>>)>>)),
      OnPage(Node([Elem("DIV") EXCEPT !.NS = XHTMLNamespace], <<MCID(0)>>)),
      OnPage(Node(Elem("Figure"),
                  <<Node(Elem("P"), <<MCID(0)>>),
                    Node([Elem("Cap") EXCEPT !.NS = MathMLNamespace], <<MCID(1)>>)>>)),
      OnPage(Node(Elem("P"),
                  <<MCID(0),
                    Node([Elem("Span") EXCEPT !.A =
                            <<[O |-> "Layout",
                               e |-> [k \in {"TextPosition"} |-> Name("Sup")]]>>],
                         <<MCID(2)>>)>>)),
      OnPage(Node([Elem("P") EXCEPT !.ID = "intro"], <<MCID(0)>>)),
      OnPage(Node(Elem("Table"),
                  <<Node(Elem("TR"), <<Node(Elem("TD"), <<MCID(0)>>)>>),
                    Node(Elem("Caption"),
                         <<MCID(1), Node(Elem("Table"), <<Node(Elem("TR"), <<MCID(2)>>)>>)>>)>>)),
      OnPage(Node(Elem("Table"), <<Node(Elem("Caption"), <<MCID(1)>>), Node(Elem("TR"), <<MCID(0)>>)>>)) }

\* The document is the tree of a term.
DocumentIs(term) ==
    /\ xref = Build(term, 0).nodes
    /\ structTreeRoot = [K |-> <<Build(term, 0).kid>>, KArr |-> TRUE]

InitTree ==
    /\ pc = "input"
    /\ roleMap = TreeRoleMap
    /\ RoleIdle
    /\ AttrIdle
    /\ RunIdle
    /\ TextIdle
    /\ SvgIdle
    /\ ExtractIdle
    /\ LinkIdle
    /\ \/ \E types \in ChainsUpTo(ChainTypes, MaxNesting), h \in HeadingTypes :
             DocumentIs(HeadingChain(types, h))
       \/ \E w \in ParentTypes, h \in HeadingTypes \cup {"H\\d", "Lbl", "Figure"},
             kids \in HeadingKids :
             DocumentIs(HeadingInParent(w, h, kids))
       \/ \E numbering \in ListNumberings,
             k \in 1..(MaxSiblings - 1) : \E items \in [1..k -> ListItems] :
             DocumentIs(OnPage(List(numbering, items)))
       \/ \E types \in ChainsUpTo(LinkTypes, MaxLinkNesting) :
             DocumentIs(LinkChain(types))
       \/ \E uri \in {"", "https://example.org/"} :
             DocumentIs(ReferenceWithLink(uri))
       \/ \E s \in DecoratedTypes, at \in ActualTexts, e \in {"", "expansion"},
             af \in AssociatedFiles, kids \in DecoratedKids :
             DocumentIs(DecoratedElement(s, at, e, af, kids))
       \/ \E s \in SiblingParents, k \in 0..MaxSiblings : \E kids \in [1..k -> SiblingTerms] :
             DocumentIs(OnPage(Node(Elem(s), kids)))
       \/ \E term \in OtherTrees :
             DocumentIs(term)
    /\ rendered = NoContent

\* traverseStructure(context)
TraverseStructure ==
    /\ pc = "input"
    /\ rendered' = traverseStructure
    /\ pc' = "rendered"
    /\ UNCHANGED <<roleMap, roleVars, attrVars, xref, structTreeRoot, runVars, extractVars, linkVars, textVars, svgVars>>

NextTree == TraverseStructure

SpecTree == InitTree /\ [][NextTree]_vars


(***************************************************************************)
(* The structure tree and the rendered markup, as the properties read      *)
(* them.                                                                   *)
(***************************************************************************)
Html == rendered.html
Rendered == pc = "rendered"

Elements == DOMAIN xref
KidElements(n) == { xref[n].K[i][2] : i \in { j \in 1..Len(xref[n].K) : IsElem(xref[n].K[j]) } }

\* The element whose K holds n; 0 for a kid of the structure tree root.
ParentOf(n) == IF \E p \in Elements : n \in KidElements(p)
               THEN CHOOSE p \in Elements : n \in KidElements(p) ELSE 0

RECURSIVE Ancestors(_)
Ancestors(n) == IF ParentOf(n) = 0 THEN {} ELSE {ParentOf(n)} \cup Ancestors(ParentOf(n))

Descendants(n) == { d \in Elements : n \in Ancestors(d) }

\* The role an element resolves to ("" without S).
RoleOfNode(n) == getElementRole(<<"ref", n>>)

IsElementToken(tok) == tok.t \in {"open", "void"}
RendersElement(n) == \E i \in DOMAIN Html : IsElementToken(Html[i]) /\ Html[i].node = n
OpenIndex(n) == CHOOSE i \in DOMAIN Html : IsElementToken(Html[i]) /\ Html[i].node = n
CloseIndex(n) ==
    IF Html[OpenIndex(n)].t = "void" THEN OpenIndex(n)
    ELSE CHOOSE i \in DOMAIN Html : Html[i].t = "close" /\ Html[i].node = n

\* How many elements are open before token i.
Depth(i) ==
    Cardinality({ j \in 1..(i-1) : Html[j].t = "open" })
    - Cardinality({ j \in 1..(i-1) : Html[j].t = "close" })

\* A set of indices as an increasing sequence.
RECURSIVE Increasing(_)
Increasing(indices) ==
    IF indices = {} THEN <<>>
    ELSE LET least == CHOOSE i \in indices : \A j \in indices : i <= j
         IN  <<least>> \o Increasing(indices \ {least})

\* The tokens of the child elements of the element n renders, in order.
ChildElementTokens(n) ==
    LET inside == { i \in (OpenIndex(n) + 1)..(CloseIndex(n) - 1) :
                      IsElementToken(Html[i]) /\ Depth(i) = Depth(OpenIndex(n)) + 1 }
        order == Increasing(inside)
    IN  [k \in 1..Len(order) |-> Html[order[k]]]

HasAttribute(tok, name, value) ==
    \E j \in 1..Len(tok.attrs) : tok.attrs[j][1] = name /\ tok.attrs[j][2] = value

\* A heading role as the documentation describes it: H, Hn, Title, or H
\* followed by digits.
IsHeadingRole(role) == role \in {"H", "Hn", "Title"} \/ MatchesHDigits(role)

InTableCell(n) == ParentOf(n) # 0 /\ RoleOfNode(ParentOf(n)) \in {"TH", "TD"}

(***************************************************************************)
(* C3: every rendered element whose resolved role is a heading role and    *)
(* whose parent's resolved role is TH or TD has tag p.                     *)
(***************************************************************************)
C3_HeadingInTableCellIsParagraph ==
    Rendered =>
        \A n \in Elements :
            (RendersElement(n) /\ IsHeadingRole(RoleOfNode(n)) /\ InTableCell(n))
            => Html[OpenIndex(n)].tag = "p"

\* The level the documentation gives a heading: the numeral suffix, 1 for
\* Title, else one more than the number of enclosing grouping elements.
DocumentedLevel(n) ==
    IF MatchesHDigits(RoleOfNode(n)) THEN DecimalValue(Tail(Spelling(RoleOfNode(n))))
    ELSE IF RoleOfNode(n) = "Title" THEN 1
    ELSE 1 + Cardinality({ a \in Ancestors(n) : RoleOfNode(a) \in groupingRoles })

(***************************************************************************)
(* C4: a rendered heading element not directly inside TH/TD has tag        *)
(* h{level} when its documented level is at most 6, and otherwise tag p    *)
(* with role="heading" and aria-level equal to the level.                  *)
(***************************************************************************)
C4_HeadingLevel ==
    Rendered =>
        \A n \in Elements :
            (RendersElement(n) /\ IsHeadingRole(RoleOfNode(n)) /\ ~InTableCell(n))
            => LET tok == Html[OpenIndex(n)]
                   level == DocumentedLevel(n)
               IN  IF level <= 6
                   THEN tok.tag = HeadingTag(level)
                   ELSE /\ tok.tag = "p"
                        /\ HasAttribute(tok, "role", "heading")
                        /\ HasAttribute(tok, "aria-level", level)


\* An element without ActualText, expansion text, associated files,
\* namespace or TextPosition attribute.
IsPlain(n) ==
    /\ ~xref[n].ActualText.has
    /\ xref[n].E = ""
    /\ xref[n].AF = <<>>
    /\ xref[n].NS = ""
    /\ getAttribute(xref[n].A, "TextPosition") = Undefined

\* The kids of n are elements of the given roles, in that order.
KidRolesAre(n, roles) ==
    /\ Len(xref[n].K) = Len(roles)
    /\ \A i \in 1..Len(roles) : getElementRole(xref[n].K[i]) = roles[i]

\* n is a rendered L with ListNumbering = Description whose kids are LI
\* elements that each hold one Lbl followed by one LBody, all plain.
IsDescriptionList(n) ==
    /\ RoleOfNode(n) = "L"
    /\ RendersElement(n)
    /\ IsPlain(n)
    /\ getListNumbering(xref[n].A) = "Description"
    /\ xref[n].K # <<>>
    /\ \A i \in 1..Len(xref[n].K) :
          /\ getElementRole(xref[n].K[i]) = "LI"
          /\ IsPlain(xref[n].K[i][2])
          /\ KidRolesAre(xref[n].K[i][2], <<"Lbl", "LBody">>)
          /\ \A k \in KidElements(xref[n].K[i][2]) : IsPlain(k)

TagsOf(tokens) == [i \in 1..Len(tokens) |-> tokens[i].tag]
NodesOf(tokens) == [i \in 1..Len(tokens) |-> tokens[i].node]
KidNodes(n) == [i \in 1..Len(xref[n].K) |-> xref[n].K[i][2]]

(***************************************************************************)
(* C5 as stated: the child elements of the dl of a description list are,   *)
(* in order, dt, dd, dt, dd, ...: one pair per LI, nothing in between.     *)
(***************************************************************************)
C5_DescriptionListPairs ==
    Rendered =>
        \A n \in Elements :
            IsDescriptionList(n)
            => /\ Html[OpenIndex(n)].tag = "dl"
               /\ TagsOf(ChildElementTokens(n)) =
                     [i \in 1..(2 * Len(xref[n].K)) |-> IF i % 2 = 1 THEN "dt" ELSE "dd"]

(***************************************************************************)
(* C5 (amended): the child elements of the dl of a description list are    *)
(* one div per LI, in order, and the child elements of each div are the    *)
(* dt of its Lbl followed by the dd of its LBody.                          *)
(***************************************************************************)
C5_DescriptionListGroups ==
    Rendered =>
        \A n \in Elements :
            IsDescriptionList(n)
            => /\ Html[OpenIndex(n)].tag = "dl"
               /\ NodesOf(ChildElementTokens(n)) = KidNodes(n)
               /\ \A i \in 1..Len(xref[n].K) :
                     LET li == xref[n].K[i][2]
                     IN  /\ Html[OpenIndex(li)].tag = "div"
                         /\ TagsOf(ChildElementTokens(li)) = <<"dt", "dd">>
                         /\ NodesOf(ChildElementTokens(li)) = KidNodes(li)

C5_Witness ==
    /\ Rendered
    /\ \E n \in Elements :
          /\ IsDescriptionList(n)
          /\ Len(xref[n].K) = 2
          /\ TagsOf(ChildElementTokens(n)) = <<"div", "div">>

(***************************************************************************)
(* C6: the rendered markup never has an a element inside another a         *)
(* element.                                                                *)
(***************************************************************************)
C6_NoNestedAnchors ==
    Rendered =>
        \A i, j \in DOMAIN Html :
            (i < j /\ Html[i].t = "open" /\ Html[i].tag = "a"
                   /\ Html[j].t = "open" /\ Html[j].tag = "a")
            => \E k \in (i+1)..(j-1) : Html[k].t = "close" /\ Html[k].node = Html[i].node

\* The tokens between the open and the close tag of the element n renders.
ContentOf(n) == SubSeq(Html, OpenIndex(n) + 1, CloseIndex(n) - 1)

Visited(n) == \E i \in 1..Len(rendered.visited) : rendered.visited[i] = n

(***************************************************************************)
(* C7: for every element that has an ActualText entry, whatever its role   *)
(* and its value, none of its descendants is visited, and when the element *)
(* is rendered its content is exactly the escaped ActualText value.        *)
(***************************************************************************)
C7_ActualTextReplacesContent ==
    Rendered =>
        \A n \in Elements :
            (xref[n].ActualText.has /\ Visited(n))
            => /\ \A d \in Descendants(n) : ~Visited(d)
               /\ RendersElement(n)
                  => ContentOf(n) = TextRun(escapeHtml(xref[n].ActualText.s), -1)

\* The marked-content identifiers in the subtree of n, and outside it.
MCIDsIn(nodes) ==
    UNION { { xref[e].K[i][2] : i \in { j \in 1..Len(xref[e].K) : xref[e].K[j][1] = "mcid" } } :
            e \in nodes }

Subtree(n) == {n} \cup Descendants(n)

\* Token i is markup of the subtree of n: it comes from one of its elements,
\* or it is text of a marked-content sequence only that subtree refers to.
FromSubtree(i, n) ==
    \/ Html[i].node \in Subtree(n)
    \/ /\ Html[i].mcid \in MCIDsIn(Subtree(n))
       /\ Html[i].mcid \notin MCIDsIn(Elements \ Subtree(n))

(***************************************************************************)
(* C8: an element whose resolved role is Artifact or Private, and its      *)
(* descendants, contribute nothing to the rendered markup, whatever        *)
(* attributes and associated files the element has.                        *)
(***************************************************************************)
C8_ArtifactSuppressed ==
    Rendered =>
        \A n \in Elements :
            RoleOfNode(n) \in {"Artifact", "Private"}
            => \A i \in DOMAIN Html : ~FromSubtree(i, n)



\* The kids of an array-valued K, stably partitioned: the kids resolving to
\* Caption first, then the others.
CaptionsFirst(kids) ==
    LET captions == { i \in 1..Len(kids) : getElementRole(kids[i]) = "Caption" }
        others == (1..Len(kids)) \ captions
        place(i) == IF i \in captions
                    THEN Cardinality({ j \in captions : j < i }) + 1
                    ELSE Cardinality(captions) + Cardinality({ j \in others : j < i }) + 1
    IN  [p \in 1..Len(kids) |-> kids[CHOOSE i \in 1..Len(kids) : place(i) = p]]

\* The structure elements in depth-first pre-order over that arrangement.
RECURSIVE PreOrder(_, _)
PreOrder(kids, isArray) ==
    LET arranged == IF isArray THEN CaptionsFirst(kids) ELSE kids
        below(kid) == IF IsElem(kid)
                      THEN <<kid[2]>> \o PreOrder(xref[kid[2]].K, xref[kid[2]].KArr)
                      ELSE <<>>
        RECURSIVE concat(_)
        concat(i) == IF i > Len(arranged) THEN <<>> ELSE below(arranged[i]) \o concat(i + 1)
    IN  concat(1)

DocumentOrder == PreOrder(structTreeRoot.K, structTreeRoot.KArr)

\* The elements the markup renders, in the order of their start tags.
RenderedOrder ==
    LET starts == Increasing({ i \in DOMAIN Html : IsElementToken(Html[i]) /\ Html[i].node # 0 })
    IN  [k \in 1..Len(starts) |-> Html[starts[k]].node]

\* A sequence of elements follows the given order, each element once.
FollowsOrder(nodes, order) ==
    LET place == [n \in Elements |->
                    IF \E p \in 1..Len(order) : order[p] = n
                    THEN CHOOSE p \in 1..Len(order) : order[p] = n ELSE 0]
    IN  /\ \A k \in 1..Len(nodes) : nodes[k] \in Elements /\ place[nodes[k]] # 0
        /\ \A k \in 1..(Len(nodes) - 1) : place[nodes[k]] < place[nodes[k + 1]]

\* The markup of every rendered element encloses exactly the rendered
\* elements of its subtree.
SubtreesEnclosed ==
    LET shown == { n \in Elements : RendersElement(n) }
        open == [n \in shown |-> OpenIndex(n)]
        close == [n \in shown |-> CloseIndex(n)]
        above == [n \in shown |-> Ancestors(n)]
    IN  \A n, m \in shown :
           (open[n] < open[m] /\ open[m] < close[n]) <=> n \in above[m]

IsCaptionOpen(i) == Html[i].t = "open" /\ Html[i].tag = "caption"

\* The tokens between the open tag at index i and its close tag.
InsideOf(i) ==
    { j \in DOMAIN Html :
        /\ i < j
        /\ \E c \in DOMAIN Html :
              Html[c].t = "close" /\ Html[c].node = Html[i].node /\ i < c /\ j < c }

C11_NoTableInCaption ==
    Rendered =>
        \A i \in DOMAIN Html :
            IsCaptionOpen(i) => \A j \in InsideOf(i) : Html[j].tag # "table"

(***************************************************************************)
(* C18: an element whose K is one marked-content id, not an array, and     *)
(* that has a page renders the same content as if its K were the           *)
(* one-element array holding that id, whatever the id, 0 included.         *)
(***************************************************************************)
HasSingleLeaf(n) ==
    /\ ~xref[n].KArr
    /\ Len(xref[n].K) = 1
    /\ xref[n].K[1][1] = "mcid"
    /\ xref[n].ActualText.s = <<>>
    /\ xref[n].E = ""

\* The traversal context and the page processStructElement hands the
\* children of n, from those of the structure tree root down.
RECURSIVE ContextOf(_)
ContextOf(n) ==
    newTraversalCtxOf(xref[n], IF ParentOf(n) = 0 THEN InitialTraversalCtx
                               ELSE ContextOf(ParentOf(n)))

RECURSIVE PageOf(_)
PageOf(n) == OrElse(xref[n].Pg, IF ParentOf(n) = 0 THEN 0 ELSE PageOf(ParentOf(n)))

C18_SingleLeafAsArray ==
    Rendered =>
        \A n \in Elements :
            (HasSingleLeaf(n) /\ PageOf(n) # 0 /\ RendersElement(n)
             /\ Html[OpenIndex(n)].t = "open")
            => ContentOf(n) = processChildren(xref[n].K, TRUE, PageOf(n), ContextOf(n)).html

\* The same for the ids other than 0.
C18_NonZeroLeafAsArray ==
    Rendered =>
        \A n \in Elements :
            (HasSingleLeaf(n) /\ xref[n].K[1][2] # 0 /\ PageOf(n) # 0 /\ RendersElement(n)
             /\ Html[OpenIndex(n)].t = "open")
            => ContentOf(n) = processChildren(xref[n].K, TRUE, PageOf(n), ContextOf(n)).html

(***************************************************************************)
(* C15: every element of the rendered markup carries data-pdf-se-type with *)
(* the resolved role of the structure element it was produced for, and     *)
(* data-pdf-se-type-original with the raw type exactly when the raw type   *)
(* differs from the resolved role.                                         *)
(***************************************************************************)
AttributeValues(tok, name) ==
    { tok.attrs[j][2] : j \in { k \in 1..Len(tok.attrs) : tok.attrs[k][1] = name } }

\* The element token carries the two attributes as the role and the raw
\* type given require.
CarriesType(tok, sType, role) ==
    /\ AttributeValues(tok, "data-pdf-se-type") = {EscapeName(role)}
    /\ AttributeValues(tok, "data-pdf-se-type-original")
         = IF sType # role THEN {EscapeName(sType)} ELSE {}

MaxLinkKids == 3

NoEntry == [has |-> FALSE]
NamedDest(name) == [has |-> TRUE, kind |-> "name", name |-> name]
PageDest == [has |-> TRUE, kind |-> "page", name |-> ""]
Action(type, uri, dest, file) ==
    [has |-> TRUE, S |-> type, URI |-> uri, D |-> dest, F |-> file]

\* convertDestToFragment(dest) for a destination that is no structure
\* element: a name, or an array that starts with a page.
convertDestToFragment(dest) ==
    CASE ~dest.has -> <<>>
      [] dest.has /\ dest.kind = "name" -> <<"#", dest.name>>
      [] OTHER -> <<"#", "page">>

\* resolveActionHref(action)
resolveActionHref(action) ==
    CASE action.S = "URI" -> action.URI
      [] action.S = "GoTo" -> convertDestToFragment(action.D)
      [] action.S = "GoToR" /\ action.F # <<>> -> action.F \o convertDestToFragment(action.D)
      [] action.S = "Launch" -> action.F
      [] OTHER -> <<>>

\* Direct action/destination on the structure element.
DirectHref(child) ==
    LET fromAction == IF child.A.has THEN resolveActionHref(child.A) ELSE <<>>
    IN  IF fromAction # <<>> THEN fromAction ELSE convertDestToFragment(child.Dest)

\* The body of findHref's loop for one child, keeping the first href found.
findHrefOfChildKeepFirst(kid, found) ==
    IF found # <<>> THEN found
    ELSE IF kid.Type = "OBJR" /\ kid.Obj.Subtype = "Link"
         THEN LET fromAction == IF kid.Obj.A.has THEN resolveActionHref(kid.Obj.A) ELSE <<>>
              IN  IF fromAction # <<>> THEN fromAction
                  ELSE IF kid.Obj.Dest.has THEN convertDestToFragment(kid.Obj.Dest)
                  ELSE <<>>
         ELSE <<>>

\* The body of findHref's loop for one child: the value of href after it,
\* `found` being the value before.
findHrefOfChild(kid, found) ==
    IF kid.Type = "OBJR" /\ kid.Obj.Subtype = "Link"
    THEN LET afterAction == IF kid.Obj.A.has THEN resolveActionHref(kid.Obj.A) ELSE found
         IN  IF afterAction = <<>> /\ kid.Obj.Dest.has
             THEN convertDestToFragment(kid.Obj.Dest)
             ELSE afterAction
    ELSE found

\* The inputs: Link elements with or without an action and a destination,
\* holding up to MaxLinkKids children.
Actions ==
    { NoEntry,
      Action("URI", <<"https://a.example/">>, NoEntry, <<>>),
      Action("URI", <<"https://b.example/">>, NoEntry, <<>>),
      Action("URI", <<>>, NoEntry, <<>>),
      Action("GoTo", <<>>, NamedDest("chapter"), <<>>),
      Action("GoToR", <<>>, PageDest, <<"other.pdf">>),
      Action("Launch", <<>>, NoEntry, <<"tool.exe">>),
      Action("JavaScript", <<>>, NoEntry, <<>>) }

Dests == { NoEntry, NamedDest("section"), PageDest }

LinkKids ==
    { [Type |-> "", Obj |-> [Subtype |-> "", A |-> NoEntry, Dest |-> NoEntry]],
      [Type |-> "OBJR", Obj |-> [Subtype |-> "Widget", A |-> Action("URI", <<"https://w.example/">>, NoEntry, <<>>), Dest |-> NoEntry]],
      [Type |-> "OBJR", Obj |-> [Subtype |-> "Link", A |-> NoEntry, Dest |-> NoEntry]],
      [Type |-> "OBJR", Obj |-> [Subtype |-> "Link", A |-> Action("URI", <<"https://a.example/">>, NoEntry, <<>>), Dest |-> NoEntry]],
      [Type |-> "OBJR", Obj |-> [Subtype |-> "Link", A |-> Action("URI", <<"https://b.example/">>, NoEntry, <<>>), Dest |-> NamedDest("section")]],
      [Type |-> "OBJR", Obj |-> [Subtype |-> "Link", A |-> Action("JavaScript", <<>>, NoEntry, <<>>), Dest |-> NoEntry]],
      [Type |-> "OBJR", Obj |-> [Subtype |-> "Link", A |-> NoEntry, Dest |-> NamedDest("section")]] }

InitLink ==
    /\ pc = "input"
    /\ roleMap = <<>>
    /\ RoleIdle
    /\ AttrIdle
    /\ TreeIdle
    /\ RunIdle
    /\ TextIdle
    /\ SvgIdle
    /\ ExtractIdle
    /\ \E a \in Actions, d \in Dests, k \in 0..MaxLinkKids : \E kids \in [1..k -> LinkKids] :
          link = [A |-> a, Dest |-> d, K |-> kids]
    /\ href = <<>>
    /\ kidIndex = 0

\* processLink up to `if (!href) await findHref(child)`
ProcessLink ==
    /\ pc = "input"
    /\ href' = DirectHref(link)
    /\ kidIndex' = 1
    /\ pc' = IF DirectHref(link) # <<>> THEN "linked" ELSE "findHref"
    /\ UNCHANGED <<roleMap, roleVars, attrVars, treeVars, runVars, extractVars, textVars, svgVars, link>>

\* One turn of `for (const childOrRef of children)` in findHref.
FindHrefOfChild ==
    /\ pc = "findHref"
    /\ kidIndex <= Len(link.K)
    /\ href' = findHrefOfChild(link.K[kidIndex], href)
    /\ kidIndex' = kidIndex + 1
    /\ UNCHANGED <<pc, roleMap, roleVars, attrVars, treeVars, runVars, extractVars, textVars, svgVars, link>>

\* The loop of findHref ends.
FindHrefEnd ==
    /\ pc = "findHref"
    /\ kidIndex > Len(link.K)
    /\ pc' = "linked"
    /\ UNCHANGED <<roleMap, roleVars, attrVars, treeVars, runVars, extractVars, linkVars, textVars, svgVars>>

NextLink == ProcessLink \/ FindHrefOfChild \/ FindHrefEnd

SpecLink == InitLink /\ [][NextLink]_vars

\* The first child that is an object reference to a link annotation with
\* an action that resolves or a destination; 0 if there is none.
FirstLinkAnnotation(kids) ==
    LET yields(i) == findHrefOfChildKeepFirst(kids[i], <<>>) # <<>>
    IN  IF \E i \in 1..Len(kids) : yields(i)
        THEN CHOOSE i \in 1..Len(kids) : yields(i) /\ \A j \in 1..(i-1) : ~yields(j)
        ELSE 0

(***************************************************************************)
(* C19: the href of a Link is that of its own action, else of its own      *)
(* destination, else of the first object-reference child that is a link    *)
(* annotation (its action, else its destination); a later object reference *)
(* never replaces or clears it.                                            *)
(***************************************************************************)
C19_FirstAnnotationDecides ==
    pc = "linked" =>
        href = IF DirectHref(link) # <<>> THEN DirectHref(link)
               ELSE IF FirstLinkAnnotation(link.K) = 0 THEN <<>>
               ELSE findHrefOfChildKeepFirst(link.K[FirstLinkAnnotation(link.K)], <<>>)

(***************************************************************************)
(* The operator pass of a page: src/src/content_extractor.ts,              *)
(* ContentExtractor.extractOperators.  A Map is a function on the keys     *)
(* set so far; a properties dictionary is a function from its keys to      *)
(* strings ("" a value String() or the test `if (lang)` takes for absent). *)
(***************************************************************************)
MaxOperators == 3

NoMCID == -1
PropertyKeys == {"Lang", "ActualText", "Alt", "E"}

\* map.set(key, value)
MapPut(map, key, value) ==
    [k \in DOMAIN map \cup {key} |-> IF k = key THEN value ELSE map[k]]

\* contentProps: the entries among Lang, ActualText, Alt and E that are truthy.
ContentProps(entries) ==
    [k \in { key \in DOMAIN entries \cap PropertyKeys : entries[key] # "" } |-> entries[k]]

\* mcid of an operator beginMarkedContentProps.
MarkedContentId(props) ==
    CASE props.kind = "number" -> props.MCID
      [] props.kind = "dict" -> props.MCID
      [] props.kind = "object" -> props.MCID
      [] OTHER -> NoMCID

\* this.mcidToProps.set(mcid, contentProps), kept from the second time on.
SetPropsKeepFirst(map, props) ==
    IF /\ props.kind = "dict"
       /\ props.MCID # NoMCID
       /\ DOMAIN ContentProps(props.entries) # {}
       /\ props.MCID \notin DOMAIN map
    THEN MapPut(map, props.MCID, ContentProps(props.entries))
    ELSE map

\* mcidToProps after `if (Object.keys(contentProps).length > 0)
\* this.mcidToProps.set(mcid, contentProps)` for props with a get function.
SetProps(map, props) ==
    IF /\ props.kind = "dict"
       /\ props.MCID # NoMCID
       /\ DOMAIN ContentProps(props.entries) # {}
    THEN MapPut(map, props.MCID, ContentProps(props.entries))
    ELSE map

\* The content ids of the innermost entry of the stack alone.
ActiveMcidsInnermost(stk) == IF stk = <<>> THEN <<>> ELSE stk[Len(stk)].mcids

\* The content ids active on the stack, entry by entry.
RECURSIVE ActiveMcids(_)
ActiveMcids(stk) == IF stk = <<>> THEN <<>> ELSE stk[1].mcids \o ActiveMcids(Tail(stk))

\* recordOp / recordImage: push item on the list of every active content id.
RECURSIVE Record(_, _, _)
Record(map, mcids, item) ==
    IF mcids = <<>> THEN map
    ELSE Record(MapPut(map, mcids[1],
                       (IF mcids[1] \in DOMAIN map THEN map[mcids[1]] ELSE <<>>) \o <<item>>),
                Tail(mcids), item)

\* getProperties(mcid): undefined is <<>>, as is no property at all.
getProperties(mcid) == IF mcid \in DOMAIN mcidToProps THEN mcidToProps[mcid] ELSE <<>>

\* The operators of the model.
PropertySets ==
    { <<>>,
      [k \in {"Lang"} |-> "en"],
      [k \in {"Lang", "ActualText"} |-> IF k = "Lang" THEN "fr" ELSE "x"],
      [k \in {"Alt", "E"} |-> IF k = "Alt" THEN "" ELSE "expansion"] }

BeginProps(kind, mcid, entries) ==
    [fn |-> "beginMarkedContentProps", props |-> [kind |-> kind, MCID |-> mcid, entries |-> entries]]

PageOperators ==
    { BeginProps("dict", m, e) : m \in {0, 1}, e \in PropertySets }
    \cup { BeginProps("dict", NoMCID, [k \in {"Lang"} |-> "en"]),
           BeginProps("number", 1, <<>>),
           BeginProps("object", 0, <<>>),
           [fn |-> "beginMarkedContent", props |-> [kind |-> "none", MCID |-> NoMCID, entries |-> <<>>]],
           [fn |-> "endMarkedContent", props |-> [kind |-> "none", MCID |-> NoMCID, entries |-> <<>>]],
           [fn |-> "showText", props |-> [kind |-> "none", MCID |-> NoMCID, entries |-> <<>>]],
           [fn |-> "paintImageXObject", props |-> [kind |-> "none", MCID |-> NoMCID, entries |-> <<>>]] }

InitExtract ==
    /\ pc = "input"
    /\ roleMap = <<>>
    /\ RoleIdle
    /\ AttrIdle
    /\ TreeIdle
    /\ RunIdle
    /\ TextIdle
    /\ SvgIdle
    /\ LinkIdle
    /\ \E k \in 0..MaxOperators : operators \in [1..k -> PageOperators]
    /\ opIndex = 0
    /\ stack = <<>>
    /\ mcidToProps = <<>>
    /\ mcidToOps = <<>>
    /\ mcidToImages = <<>>

\* extractOperators up to its loop: page.getOperatorList has filled fns and args.
ExtractOperators ==
    /\ pc = "input"
    /\ opIndex' = 1
    /\ pc' = "operators"
    /\ UNCHANGED <<roleMap, roleVars, attrVars, treeVars, runVars, linkVars, textVars, svgVars,
                   operators, stack, mcidToProps, mcidToOps, mcidToImages>>

\* if (fn === OPS.beginMarkedContentProps)
BeginMarkedContentProps ==
    /\ pc = "operators"
    /\ opIndex <= Len(operators)
    /\ operators[opIndex].fn = "beginMarkedContentProps"
    /\ mcidToProps' = SetProps(mcidToProps, operators[opIndex].props)
    /\ stack' = Append(stack,
                       [mcids |-> IF MarkedContentId(operators[opIndex].props) # NoMCID
                                  THEN <<MarkedContentId(operators[opIndex].props)>>
                                  ELSE <<>>])
    /\ opIndex' = opIndex + 1
    /\ UNCHANGED <<pc, roleMap, roleVars, attrVars, treeVars, runVars, linkVars, textVars, svgVars,
                   operators, mcidToOps, mcidToImages>>

\* else if (fn === OPS.beginMarkedContent)
BeginMarkedContent ==
    /\ pc = "operators"
    /\ opIndex <= Len(operators)
    /\ operators[opIndex].fn = "beginMarkedContent"
    /\ stack' = Append(stack, [mcids |-> <<>>])
    /\ opIndex' = opIndex + 1
    /\ UNCHANGED <<pc, roleMap, roleVars, attrVars, treeVars, runVars, linkVars, textVars, svgVars,
                   operators, mcidToProps, mcidToOps, mcidToImages>>

\* else if (fn === OPS.endMarkedContent)
EndMarkedContent ==
    /\ pc = "operators"
    /\ opIndex <= Len(operators)
    /\ operators[opIndex].fn = "endMarkedContent"
    /\ stack' = IF stack = <<>> THEN <<>> ELSE SubSeq(stack, 1, Len(stack) - 1)
    /\ opIndex' = opIndex + 1
    /\ UNCHANGED <<pc, roleMap, roleVars, attrVars, treeVars, runVars, linkVars, textVars, svgVars,
                   operators, mcidToProps, mcidToOps, mcidToImages>>

\* else: record the operator, and the image it paints, for all active ids.
RecordOperator ==
    /\ pc = "operators"
    /\ opIndex <= Len(operators)
    /\ operators[opIndex].fn \notin {"beginMarkedContentProps", "beginMarkedContent", "endMarkedContent"}
    /\ mcidToImages' = IF operators[opIndex].fn = "paintImageXObject"
                       THEN Record(mcidToImages, ActiveMcids(stack), opIndex)
                       ELSE mcidToImages
    /\ mcidToOps' = Record(mcidToOps, ActiveMcids(stack), opIndex)
    /\ opIndex' = opIndex + 1
    /\ UNCHANGED <<pc, roleMap, roleVars, attrVars, treeVars, runVars, linkVars, textVars, svgVars,
                   operators, stack, mcidToProps>>

\* The loop ends: extractOperators returns.
ExtractEnd ==
    /\ pc = "operators"
    /\ opIndex > Len(operators)
    /\ pc' = "extracted"
    /\ UNCHANGED <<roleMap, roleVars, attrVars, treeVars, runVars, linkVars, textVars, svgVars, extractVars>>

NextExtract ==
    \/ ExtractOperators
    \/ BeginMarkedContentProps
    \/ BeginMarkedContent
    \/ EndMarkedContent
    \/ RecordOperator
    \/ ExtractEnd

SpecExtract == InitExtract /\ [][NextExtract]_vars

\* The operators that declare properties for a content id: those with a
\* properties dictionary that names the id and holds a property.
Declarations(mcid) ==
    { i \in 1..Len(operators) :
        /\ operators[i].fn = "beginMarkedContentProps"
        /\ operators[i].props.kind = "dict"
        /\ operators[i].props.MCID = mcid
        /\ DOMAIN ContentProps(operators[i].props.entries) # {} }

Least(indices) == CHOOSE i \in indices : \A j \in indices : i <= j
Greatest(indices) == CHOOSE i \in indices : \A j \in indices : j <= i

(***************************************************************************)
(* C20: when a content id is declared by several operators with different  *)
(* property sets, the properties returned for it after extraction are      *)
(* those of the first declaration (here: the first that holds a property). *)
(***************************************************************************)
C20_FirstDeclarationKept ==
    pc = "extracted" =>
        \A mcid \in {0, 1} :
            Declarations(mcid) # {}
            => getProperties(mcid)
                 = ContentProps(operators[Least(Declarations(mcid))].props.entries)

\* C20 as amended: they are those of the last declaration that holds a
\* property, and none when no declaration holds one.
C20_LastDeclarationKept ==
    pc = "extracted" =>
        \A mcid \in {0, 1} :
            getProperties(mcid)
              = IF Declarations(mcid) = {} THEN <<>>
                ELSE ContentProps(operators[Greatest(Declarations(mcid))].props.entries)

\* A content id was declared twice with different property sets.
C20_Witness ==
    /\ pc = "extracted"
    /\ \E mcid \in {0, 1} : \E i, j \in Declarations(mcid) :
          /\ i < j
          /\ ContentProps(operators[i].props.entries) # ContentProps(operators[j].props.entries)

(***************************************************************************)
(* Conversions in sequence: deriveHtmlFromPdf (index.ts), createPDFContext *)
(* (pdf_js_context.ts), convertToHTML (converter.ts) and the state the     *)
(* traversal mutates: the identifier table idState and the per-page cache  *)
(* context.pageContentExtractors.  A document is the sequence of calls its *)
(* structure tree makes the traversal perform, in document order:          *)
(*   element : processStructElement reaches the id attribute of object obj *)
(*             (byRef: the kid was a Ref of a K array; otherwise the Dict  *)
(*             that Dict.get resolved);                                    *)
(*   link    : processLink converts a Dest that is a Ref to object obj;    *)
(*   content : fetchContentForMCID(mcid, pg);                              *)
(*   text    : fetchTextForMCID(mcid, pg).                                 *)
(* Explicit IDs are letters only, which stringToPDFString, escapeHtml and  *)
(* encodeURIComponent all leave unchanged.                                 *)
(***************************************************************************)

MaxSteps == 3
MaxConversions == 2

\* childDict.get("ID") of the objects the documents use.
ExplicitID(obj) == IF obj = 3 THEN <<"intro">> ELSE <<>>

\* idState.byRef.get(key) || null, idState.byDict.get(dict) || null
lookupGeneratedId(byRef, key, ids) ==
    IF byRef
    THEN IF key \in DOMAIN ids.byRef THEN ids.byRef[key] ELSE <<>>
    ELSE IF key \in DOMAIN ids.byDict THEN ids.byDict[key] ELSE <<>>

\* ensureGeneratedId without `idState.counter += 1`.
ensureGeneratedIdSameCounter(byRef, key, ids) ==
    LET existing == lookupGeneratedId(byRef, key, ids)
    IN  IF existing # <<>>
        THEN [id |-> existing, idState |-> ids]
        ELSE IF byRef
             THEN [id |-> <<"pdf-se", key, 0>>,
                   idState |-> [ids EXCEPT !.byRef = MapPut(@, key, <<"pdf-se", key, 0>>)]]
             ELSE [id |-> <<"pdf-se", ids.counter>>,
                   idState |-> [ids EXCEPT !.byDict = MapPut(@, key, <<"pdf-se", ids.counter>>)]]

ensureGeneratedId(byRef, key, ids) ==
    LET existing == lookupGeneratedId(byRef, key, ids)
    IN  IF existing # <<>>
        THEN [id |-> existing, idState |-> ids]
        ELSE IF byRef
             THEN [id |-> <<"pdf-se", key, 0>>,
                   idState |-> [ids EXCEPT !.byRef = MapPut(@, key, <<"pdf-se", key, 0>>)]]
             ELSE [id |-> <<"pdf-se", ids.counter>>,
                   idState |-> [ids EXCEPT !.counter = @ + 1,
                                           !.byDict = MapPut(@, key, <<"pdf-se", ids.counter>>)]]

\* const idState = { byRef: new Map(), byDict: new WeakMap(), counter: 1 }:
\* whatever table an earlier traversal left is not consulted.
NewIdStateShared(previous) == previous
NewIdState(previous) == [byRef |-> <<>>, byDict |-> <<>>, counter |-> 1]

\* pageContentExtractors: new Map()
createPDFContext(data) == [data |-> data, pageContentExtractors |-> <<>>]

\* The part of a traversal the steps read and write.  heap tells the Dict
\* objects of one createPDFContext call from those of another: the WeakMap
\* byDict is keyed by object identity.
Run(cache, ids, pieces, passes, heap) ==
    [cache |-> cache, idState |-> ids, body |-> pieces, extracted |-> passes, raised |-> FALSE,
     heap |-> heap]

\* The id attribute of processStructElement.
ElementId(step, run) ==
    LET ensured == IF ExplicitID(step.obj) # <<>>
                   THEN [id |-> ExplicitID(step.obj), idState |-> run.idState]
                   ELSE ensureGeneratedId(step.byRef,
                                          IF step.byRef THEN step.obj ELSE <<run.heap, step.obj>>,
                                          run.idState)
    IN  [run EXCEPT !.idState = ensured.idState,
                    !.body = Append(@, [kind |-> "element", obj |-> step.obj, id |-> ensured.id])]

\* getStructElementIdFromDest for a Dest that is a Ref to a structure element,
\* and the "#" fragment convertDestToFragment makes of it.
getStructElementIdFromDest(dest, ids) ==
    IF ExplicitID(dest) # <<>>
    THEN [id |-> ExplicitID(dest), idState |-> ids]
    ELSE ensureGeneratedId(TRUE, dest, ids)

DestFragment(step, run) ==
    LET structId == getStructElementIdFromDest(step.obj, run.idState)
    IN  [run EXCEPT !.idState = structId.idState,
                    !.body = Append(@, [kind |-> "link", obj |-> step.obj, id |-> structId.id])]

\* catalog.getPageIndex(pgRef) when it returns.
getPageIndex(data, pg) == IF data.pages[pg] = "missing" THEN -1 ELSE pg - 1

\* context.pageContentExtractors.set(pageIndex, extractor)
CacheSetDropped(cache, pageIndex, extractor) == cache
CacheSet(cache, pageIndex, extractor) == MapPut(cache, pageIndex, extractor)

\* What fetchContentForMCID makes of one leaf with the page's extractor: the
\* text of a text leaf, the placeholder image of an image whose conversion
\* failed (convertImageXObject returned ""), the placeholder span of a vector
\* leaf whose emission raised.
LeafMarkup(extractor, mcid) ==
    CASE mcid = 0 -> <<"text", extractor.of, extractor.pageIndex, mcid>>
      [] mcid = 1 -> <<"img", "placeholder.png", "(Conversion Failed)">>
      [] OTHER    -> <<"span", "data-pdf-vector", "[Vector Graphic]">>

\* extractor.getText(mcid)
LeafText(extractor, mcid) ==
    IF mcid = 0 THEN <<"text", extractor.of, extractor.pageIndex, mcid>> ELSE <<>>

\* fetchContentForMCID and fetchTextForMCID up to the use of the extractor:
\* the page lookup, the cache, the extraction pass.
Fetch(step, run, data) ==
    LET fault == data.pages[step.pg]
        pageIndex == getPageIndex(data, step.pg)
        made == [of |-> data.name, pageIndex |-> pageIndex, pass |-> Len(run.extracted) + 1]
        cached == pageIndex \in DOMAIN run.cache
        extractor == IF cached THEN run.cache[pageIndex] ELSE made
        piece == [kind |-> step.op, pg |-> step.pg, mcid |-> step.mcid, pass |-> extractor.pass,
                  markup |-> IF step.op = "content" THEN LeafMarkup(extractor, step.mcid)
                             ELSE LeafText(extractor, step.mcid)]
    IN  CASE fault = "lookupRaises" -> [run EXCEPT !.raised = TRUE]
          [] pageIndex = -1 ->
                [run EXCEPT !.body = Append(@, [kind |-> step.op, pg |-> step.pg, mcid |-> step.mcid,
                                                pass |-> 0, markup |-> <<>>])]
          [] cached -> [run EXCEPT !.body = Append(@, piece)]
          [] fault = "extractRaises" ->
                [run EXCEPT !.raised = TRUE, !.extracted = Append(@, pageIndex)]
          [] OTHER ->
                [run EXCEPT !.cache = CacheSet(@, pageIndex, made),
                            !.extracted = Append(@, pageIndex),
                            !.body = Append(@, piece)]

\* A property read of a JavaScript value: a string has neither html nor
\* structureMap.
PropertyOf(value, name) ==
    IF value.type = "object" /\ name \in DOMAIN value.fields THEN value.fields[name] ELSE Undefined

\* convertToHTML from the call of traverseStructure on:
\*   const { html: bodyContent, structureMap } = await traverseStructure(context);
\*   html += bodyContent;
\*   if (structureMap.size > 0) ...
\* returned is what traverseStructure returned, rendered.html, a string.
convertToHTML(returned) ==
    LET bodyContent == PropertyOf(returned, "html")
        structureMap == PropertyOf(returned, "structureMap")
    IN  [bodyContent |-> bodyContent, structureMap |-> structureMap,
         outcome |-> IF structureMap = Undefined THEN "raised" ELSE "completed"]

\* return rendered.html
ReturnedHtml(html) == [type |-> "string", value |-> html]

\* One step of the traversal.
ApplyStep(step, run, data) ==
    CASE step.op = "element" -> ElementId(step, run)
      [] step.op = "link"    -> DestFragment(step, run)
      [] OTHER               -> Fetch(step, run, data)

\* What deriveHtmlFromPdf leaves of a conversion whose traversal ended in run.
Outcome(data, run) ==
    [data |-> data,
     traversal |-> IF run.raised THEN "raised" ELSE "completed",
     body |-> run.body,
     structureMap |-> IF run.raised THEN Undefined
                      ELSE convertToHTML(ReturnedHtml(run.body)).structureMap,
     outcome |-> IF run.raised THEN "raised"
                 ELSE convertToHTML(ReturnedHtml(run.body)).outcome]

\* throw new Error("PDF is not tagged (no StructTreeRoot found).")
NotTagged(data) ==
    [data |-> data, traversal |-> "none", body |-> <<>>, structureMap |-> Undefined,
     outcome |-> "raised"]

\* ---- documents ----
Step(op, obj, byRef, pg, mcid) == [op |-> op, obj |-> obj, byRef |-> byRef, pg |-> pg, mcid |-> mcid]

ElementSteps ==
    { Step("element", obj, byRef, 0, 0) : obj \in 1..2, byRef \in BOOLEAN }
        \cup { Step("element", 3, TRUE, 0, 0) }
LinkSteps == { Step("link", dest, TRUE, 0, 0) : dest \in {1, 3} }
ContentSteps ==
    { Step("content", 0, FALSE, 1, 0), Step("content", 0, FALSE, 1, 1),
      Step("content", 0, FALSE, 2, 0), Step("content", 0, FALSE, 2, 2) }
TextSteps == { Step("text", 0, FALSE, pg, 0) : pg \in 1..2 }
Steps == ElementSteps \cup LinkSteps \cup ContentSteps \cup TextSteps

StepsUpTo(kinds, n) == UNION { [1..k -> kinds] : k \in 0..n }

PageFaults == {"ok", "missing", "lookupRaises", "extractRaises"}

Document(name, tagged, fault, calls) ==
    [name |-> name, tagged |-> tagged, pages |-> <<fault, "ok">>, steps |-> calls]

Untagged == Document("U", FALSE, "ok", <<>>)

\* Documents converted alone.
SingleDocuments ==
    { Document("A", TRUE, fault, calls) : fault \in PageFaults, calls \in StepsUpTo(Steps, MaxSteps) }
        \cup {Untagged}

\* Documents converted one after another.
BatchSteps == { Step("element", 1, FALSE, 0, 0), Step("link", 1, TRUE, 0, 0),
                Step("content", 0, FALSE, 1, 0) }
BatchDocuments ==
    { Document(name, TRUE, "ok", calls) :
        name \in {"A", "B"}, calls \in StepsUpTo(BatchSteps, MaxSteps - 2) }
        \cup { Document("B", TRUE, "extractRaises", <<Step("content", 0, FALSE, 1, 0)>>), Untagged }

InitRun ==
    /\ pc = "ready"
    /\ roleMap = <<>>
    /\ RoleIdle /\ AttrIdle /\ TreeIdle /\ ExtractIdle /\ LinkIdle /\ TextIdle /\ SvgIdle
    /\ pending \in { <<data>> : data \in SingleDocuments }
                    \cup UNION { [1..n -> BatchDocuments] : n \in 2..MaxConversions }
    /\ context = NoContext
    /\ idState = NoIdState
    /\ cursor = 0
    /\ body = <<>>
    /\ extracted = <<>>
    /\ results = <<>>

otherVars == <<roleMap, roleVars, attrVars, treeVars, extractVars, linkVars, textVars, svgVars>>

\* deriveHtmlFromPdf: createPDFContext, the structTreeRoot test, and
\* convertToHTML up to the first call traverseStructure makes.
DeriveHtmlFromPdf ==
    /\ pc = "ready"
    /\ pending # <<>>
    /\ context' = createPDFContext(Head(pending))
    /\ IF Head(pending).tagged
       THEN /\ pc' = "traversing"
            /\ idState' = NewIdState(idState)
            /\ cursor' = 1
            /\ body' = <<>>
            /\ extracted' = <<>>
            /\ UNCHANGED <<pending, results>>
       ELSE /\ results' = Append(results, NotTagged(Head(pending)))
            /\ pending' = Tail(pending)
            /\ UNCHANGED <<pc, idState, cursor, body, extracted>>
    /\ UNCHANGED otherVars

Traversing(op) ==
    /\ pc = "traversing"
    /\ cursor <= Len(context.data.steps)
    /\ context.data.steps[cursor].op = op

\* The traversal after one step: it goes on, or the step raised and
\* deriveHtmlFromPdf rejects.
Advance(run) ==
    /\ context' = [context EXCEPT !.pageContentExtractors = run.cache]
    /\ idState' = run.idState
    /\ body' = run.body
    /\ extracted' = run.extracted
    /\ IF run.raised
       THEN /\ results' = Append(results, Outcome(context.data, run))
            /\ pending' = Tail(pending)
            /\ pc' = "ready"
            /\ UNCHANGED cursor
       ELSE /\ cursor' = cursor + 1
            /\ UNCHANGED <<pc, pending, results>>
    /\ UNCHANGED otherVars

Current == Run(context.pageContentExtractors, idState, body, extracted, Len(results))

ProcessStructElementId ==
    /\ Traversing("element")
    /\ Advance(ElementId(context.data.steps[cursor], Current))

ConvertDestToFragment ==
    /\ Traversing("link")
    /\ Advance(DestFragment(context.data.steps[cursor], Current))

FetchContentForMCID ==
    /\ Traversing("content")
    /\ Advance(Fetch(context.data.steps[cursor], Current, context.data))

FetchTextForMCID ==
    /\ Traversing("text")
    /\ Advance(Fetch(context.data.steps[cursor], Current, context.data))

\* traverseStructure returns rendered.html and convertToHTML goes on with it.
ConvertToHTML ==
    /\ pc = "traversing"
    /\ cursor > Len(context.data.steps)
    /\ results' = Append(results, Outcome(context.data, Current))
    /\ pending' = Tail(pending)
    /\ pc' = "ready"
    /\ UNCHANGED <<context, idState, cursor, body, extracted>>
    /\ UNCHANGED otherVars

NextRun ==
    \/ DeriveHtmlFromPdf
    \/ ProcessStructElementId
    \/ ConvertDestToFragment
    \/ FetchContentForMCID
    \/ FetchTextForMCID
    \/ ConvertToHTML

SpecRun == InitRun /\ [][NextRun]_vars

\* The same steps from the state a conversion starts in when no other ran.
RECURSIVE Traverse(_, _, _)
Traverse(data, run, i) ==
    IF run.raised \/ i > Len(data.steps)
    THEN run
    ELSE Traverse(data, ApplyStep(data.steps[i], run, data), i + 1)

ConvertedAlone(data) ==
    IF data.tagged
    THEN Outcome(data, Traverse(data, Run(createPDFContext(data).pageContentExtractors,
                                          [byRef |-> <<>>, byDict |-> <<>>, counter |-> 1],
                                          <<>>, <<>>, 0), 1))
    ELSE NotTagged(data)

(***************************************************************************)
(* Claims about conversion runs                                            *)
(***************************************************************************)

IsLeafPiece(piece) == piece.kind \in {"content", "text"}

\* C12: within one conversion the extraction pass of a page is executed at most
\* once, whatever sequence of content and label-text requests is made, and every
\* request for that page is served by the extractor that pass stored in the cache.
C12_ExtractedOncePerPage ==
    pc = "traversing" =>
        /\ \A i, j \in DOMAIN extracted : extracted[i] = extracted[j] => i = j
        /\ \A i \in DOMAIN body :
              IsLeafPiece(body[i]) /\ body[i].pass # 0 =>
                  /\ body[i].pass \in DOMAIN extracted
                  /\ extracted[body[i].pass] = body[i].pg - 1
                  /\ body[i].pg - 1 \in DOMAIN context.pageContentExtractors
                  /\ context.pageContentExtractors[body[i].pg - 1].pass = body[i].pass

\* Two requests for one page have been served, one of them a label-text lookup.
C12_Witness ==
    /\ pc = "traversing"
    /\ \E i, j \in DOMAIN body :
          /\ i < j
          /\ IsLeafPiece(body[i]) /\ IsLeafPiece(body[j])
          /\ body[i].pg = body[j].pg
          /\ body[i].pass # 0 /\ body[j].pass # 0
          /\ body[i].kind # body[j].kind


\* C13: the identifier table and the page cache of a conversion are its own:
\* whatever was converted before, a conversion ends as the conversion of the
\* same document from a fresh start does, with the same markup, the same
\* generated identifiers and the same outcome.
C13_ConversionsIsolated ==
    \A i \in DOMAIN results : results[i] = ConvertedAlone(results[i].data)

\* A second conversion has allocated a counter identifier after a first
\* conversion, of another document, allocated one.
C13_Witness ==
    /\ Len(results) >= 2
    /\ results[1].data.name # results[2].data.name
    /\ \E k \in DOMAIN results[1].body :
          results[1].body[k].kind = "element" /\ Len(results[1].body[k].id) = 2
    /\ \E k \in DOMAIN results[2].body :
          results[2].body[k].kind = "element" /\ Len(results[2].body[k].id) = 2

IdsOf(kind, obj) == { body[i].id : i \in { k \in DOMAIN body : body[k].kind = kind /\ body[k].obj = obj } }

\* C14: within a conversion the id attribute of a structure element is its
\* explicit ID if it has one, is the same on every visit of the element, and is
\* the fragment target of every link destination that resolves to the element,
\* whichever of the two is rendered first.
C14_IdAgreesWithDestinations ==
    \A obj \in 1..3 :
        /\ Cardinality(IdsOf("element", obj) \cup IdsOf("link", obj)) <= 1
        /\ ExplicitID(obj) # <<>> => IdsOf("element", obj) \subseteq {ExplicitID(obj)}

\* The content ids of the marked-content leaves the element emitted as piece k
\* owns: the content leaves up to the next element.
OwnedContentIds(pieces, k) ==
    { pieces[j].mcid : j \in { l \in DOMAIN pieces :
          /\ l > k
          /\ pieces[l].kind = "content"
          /\ \A e \in (k + 1)..l : pieces[e].kind # "element" } }

\* C16: for a document with a structure tree, rendering hands back, next to the
\* body markup, an index that maps every element identifier emitted in the
\* markup to exactly the set of content ids of the leaves that element owns.
C16_IndexOfOwnedContent ==
    \A i \in DOMAIN results :
        results[i].traversal = "completed" =>
            /\ results[i].structureMap # Undefined
            /\ \A k \in DOMAIN results[i].body :
                  results[i].body[k].kind = "element" =>
                      /\ results[i].body[k].id \in DOMAIN results[i].structureMap
                      /\ results[i].structureMap[results[i].body[k].id]
                            = OwnedContentIds(results[i].body, k)

\* C17: when the page lookup or the extraction pass for a leaf raises, or its
\* image conversion or vector emission fails, the traversal still ends normally
\* with the markup of every other step; only a document without structure tree
\* is rejected.
C17_ContentFailureIsLocal ==
    \A i \in DOMAIN results :
        results[i].data.tagged =>
            /\ results[i].traversal = "completed"
            /\ Len(results[i].body) = Len(results[i].data.steps)

(***************************************************************************)
(* Claims about the display property of the resolved style                 *)
(***************************************************************************)
MarginImplying == {"SpaceBefore", "SpaceAfter", "StartIndent", "EndIndent"}

\* The dictionary is handled by processLayoutCSSProperties and one of its
\* margin attributes makes it call cssMap.set("display", "block").
SetsDisplayBlock(d) ==
    /\ d.O = "Layout" \/ StartsWith(d.O, "CSS")
    /\ \E key \in MarginImplying : Get(d, key) # Undefined

\* C21: once a margin-implying attribute (SpaceBefore, SpaceAfter, StartIndent,
\* EndIndent) has set display to block, no other attribute of the element, in
\* the same dictionary or in a later category, changes it: the resolved style
\* has display: block.
C21_DisplayBlockKept ==
    (pc = "style" /\ \E i \in 1..Len(attributes) : SetsDisplayBlock(attributes[i]))
        => /\ WritesKey(cssMap, "display")
           /\ MapGet(cssMap, "display") = "block"

(***************************************************************************)
(* Claims about where the role-map walk stops                              *)
(***************************************************************************)
\* A standard structure type as the comment of isStandardType, the
\* documentation and the tests have it: the listed names and H<digits>.
IsDocumentedStandardType(role) == isStandardType(role) \/ MatchesHDigits(role)

\* The walk as stated: from cur, the mapped value of each value in turn, up
\* to the first value that is a standard type, has no mapping or was visited
\* before; that value is the result.
RECURSIVE StatedWalk(_, _, _)
StatedWalk(rm, cur, visited) ==
    IF cur \notin DOMAIN rm \/ rm[cur] = ""
    THEN cur
    ELSE IF IsDocumentedStandardType(rm[cur]) \/ rm[cur] \in visited \cup {cur}
    THEN rm[cur]
    ELSE StatedWalk(rm, rm[cur], visited \cup {cur})

\* C26: a walk that reaches a value it has already visited (a cycle, a
\* self-mapping) stops and returns that value, without an error; a walk that
\* first reaches a standard type or a value with no mapping returns that value.
C26_WalkStopsAtFirstStop ==
    ( /\ pc = "resolved"
      /\ rawType # ""
      /\ ~(isPdfStandardNamespace(namespaceURI) /\ IsDocumentedStandardType(rawType)) )
    => current = StatedWalk(roleMap, rawType, {})

(***************************************************************************)
(* Claims about elements of the HTML and MathML namespaces                 *)
(***************************************************************************)
BypassNamespaces == {MathMLNamespace, XHTMLNamespace}

\* The kids of the parent of n (of the root for a top-level element), as
\* processChildren receives them.
SiblingsOf(n) == IF ParentOf(n) = 0 THEN structTreeRoot.K ELSE xref[ParentOf(n)].K

\* n is rendered after every sibling that precedes it in K.
KeepsItsPlace(n) ==
    \A i, j \in DOMAIN SiblingsOf(n) :
        ( /\ i < j
          /\ SiblingsOf(n)[j] = <<"ref", n>>
          /\ IsElem(SiblingsOf(n)[i])
          /\ RendersElement(SiblingsOf(n)[i][2]) )
        => OpenIndex(SiblingsOf(n)[i][2]) < OpenIndex(n)

\* C25: an element of the HTML or MathML namespace is rendered with its raw
\* type, unchanged, as the tag, whatever the role map holds, and its role is
\* the raw type wherever it is consulted: the role map does not make it a
\* caption that is moved before its siblings.
C25_NamespaceBypassesRoleMap ==
    Rendered =>
        \A n \in Elements :
            (xref[n].NS \in BypassNamespaces /\ xref[n].S # "" /\ RendersElement(n)) =>
                /\ Html[OpenIndex(n)].tag = xref[n].S
                /\ getElementRole(<<"ref", n>>) = xref[n].S
                /\ xref[n].S # "Caption" => KeepsItsPlace(n)

(***************************************************************************)
(* Claims about a list nested in a list without a list item                *)
(***************************************************************************)
\* The markup of n stands in a synthesized li: the token before it opens an
\* li that belongs to no structure element and the token after it closes one.
InSynthesizedLi(n) ==
    /\ OpenIndex(n) > 1
    /\ Html[OpenIndex(n) - 1].t = "open"
    /\ Html[OpenIndex(n) - 1].tag = "li"
    /\ Html[OpenIndex(n) - 1].node = 0
    /\ CloseIndex(n) < Len(Html)
    /\ Html[CloseIndex(n) + 1].t = "close"
    /\ Html[CloseIndex(n) + 1].tag = "li"
    /\ Html[CloseIndex(n) + 1].node = 0

IsListInList(n) ==
    /\ ParentOf(n) # 0
    /\ getElementRole(<<"ref", ParentOf(n)>>) = "L"
    /\ getElementRole(<<"ref", n>>) = "L"

\* C24: a child of an L that resolves to L is rendered inside a synthesized li
\* of the parent list, whether the K of the parent is an array or a single
\* child; a child of any other role is never wrapped.
C24_NestedListWrapped ==
    Rendered =>
        \A n \in Elements :
            RendersElement(n) => (IsListInList(n) <=> InSynthesizedLi(n))

\* The same for parents whose K is an array.
C24_NestedListWrappedInArray ==
    Rendered =>
        \A n \in Elements :
            (RendersElement(n) /\ (ParentOf(n) # 0 => xref[ParentOf(n)].KArr))
                => (IsListInList(n) <=> InSynthesizedLi(n))

(***************************************************************************)
(* Claims about Private and Artifact elements                              *)
(***************************************************************************)
\* C23: rendering an element whose role is Private or Artifact does not process
\* its children: processStructElement is called on none of its descendants, so
\* none of them is given an identifier (the table and its counter stay as they
\* were) and no leaf below it is fetched (the page cache stays as it was).
C23_SuppressedChildrenNotProcessed ==
    Rendered =>
        \A n \in Elements :
            (Visited(n) /\ RoleOfNode(n) \in {"Private", "Artifact"})
                => \A d \in Descendants(n) : ~Visited(d)

(***************************************************************************)
(* Claims about the generated identifiers                                  *)
(***************************************************************************)
\* String(n) for the numbers the model uses.
DecimalDigits(n) ==
    CASE n = 0 -> <<"0">> [] n = 1 -> <<"1">> [] n = 2 -> <<"2">> [] n = 3 -> <<"3">>
      [] n = 4 -> <<"4">> [] n = 5 -> <<"5">> [] n = 6 -> <<"6">> [] n = 7 -> <<"7">>
      [] n = 8 -> <<"8">> [] n = 9 -> <<"9">>

\* The characters of `pdf-se-${num}-${gen}` and of `pdf-se-${counter}`.
IdCharacters(id) ==
    IF Len(id) = 3
    THEN <<"p", "d", "f", "-", "s", "e", "-">> \o DecimalDigits(id[2]) \o <<"-">> \o DecimalDigits(id[3])
    ELSE <<"p", "d", "f", "-", "s", "e", "-">> \o DecimalDigits(id[2])

\* The generated identifiers the table holds, by the object they belong to:
\* a reference key is the object number; a dictionary key is <<heap, object>>.
GeneratedIds ==
    { <<key, IdCharacters(idState.byRef[key])>> : key \in DOMAIN idState.byRef }
        \cup { <<key[2], IdCharacters(idState.byDict[key])>> : key \in DOMAIN idState.byDict }

\* C29: within a conversion two distinct elements without explicit ID never get
\* the same generated identifier, in whatever order elements are rendered and
\* destinations looked up: a reference-keyed and a counter-keyed identifier
\* never coincide and the counter hands out no value twice.
C29_GeneratedIdsDistinct ==
    /\ \A a, b \in GeneratedIds : a[2] = b[2] => a[1] = b[1]
    /\ \A key \in DOMAIN idState.byDict : idState.byDict[key][2] < idState.counter

\* Both tables hold an identifier, for two different objects, and the counter
\* has been used twice.
C29_Witness ==
    /\ pc = "traversing"
    /\ idState.counter = 3
    /\ \E r \in DOMAIN idState.byRef, d \in DOMAIN idState.byDict : r # d[2]

(***************************************************************************)
(* ContentExtractor.extract: the text pass beside the operator pass.       *)
(*                                                                         *)
(* extract awaits extractText and extractOperators together.  The text     *)
(* pass hands every chunk of text items to processTextItems, which keeps   *)
(* its stack in the field textStack from one chunk to the next, so the     *)
(* items of a page are one sequence here.  The text a content id has       *)
(* received is kept as the positions of the items appended to it, the      *)
(* string being their concatenation (getText).  The promise of             *)
(* extractTextContent resolves to nothing when a sink is given, so the     *)
(* items are processed once.                                               *)
(***************************************************************************)
MaxPageItems == 3
MaxTextItems == 5

\* item.id.split("_mc"): the pieces of the id around the separator.
RECURSIVE SplitMc(_, _)
SplitMc(id, piece) ==
    IF id = <<>> THEN <<piece>>
    ELSE IF Head(id) = "_mc" THEN <<piece>> \o SplitMc(Tail(id), <<>>)
    ELSE SplitMc(Tail(id), piece \o <<Head(id)>>)

\* parseInt(parts[1], 10); NoMCID stands for NaN.
ParseInt(digits) ==
    CASE digits = <<"0">> -> 0
      [] digits = <<"1">> -> 1
      [] OTHER -> NoMCID

\* The mcids of a text item beginMarkedContentProps.
TextItemMcids(item) ==
    IF item.id # <<>> /\ Len(SplitMc(item.id, <<>>)) > 1
                     /\ ParseInt(SplitMc(item.id, <<>>)[2]) # NoMCID
    THEN <<ParseInt(SplitMc(item.id, <<>>)[2])>>
    ELSE <<>>

\* text.trim() === ""
IsWhitespaceOnly(str) == str \in {" ", "\n"}

Range(seq) == { seq[i] : i \in DOMAIN seq }

\* The fields processTextItems reads and writes.
TextState(stk, text, hasContent, last) ==
    [textStack |-> stk, mcidToText |-> text, mcidHasContent |-> hasContent, lastTextMcids |-> last]

\* targetMcids left at activeMcids for every fragment.
TargetMcidsActive(st, str) == Range(ActiveMcids(st.textStack))

\* targetMcids of a text item with the string str.
TargetMcids(st, str) ==
    IF /\ IsWhitespaceOnly(str)
       /\ Range(ActiveMcids(st.textStack)) \cap st.mcidHasContent = {}
       /\ st.lastTextMcids # {}
    THEN st.lastTextMcids
    ELSE Range(ActiveMcids(st.textStack))

\* this.mcidToText.set(mcid, current + text + suffix) for each target.
AppendText(text, targets, i) ==
    [m \in DOMAIN text \cup targets |->
        IF m \in targets
        THEN (IF m \in DOMAIN text THEN text[m] ELSE <<>>) \o <<i>>
        ELSE text[m]]

\* One turn of `for (const item of items)` in processTextItems.
processTextItem(st, items, i) ==
    CASE items[i].type = "beginMarkedContentProps" ->
           [st EXCEPT !.textStack = Append(@, [mcids |-> TextItemMcids(items[i])])]
      [] items[i].type = "beginMarkedContent" ->
           [st EXCEPT !.textStack = Append(@, [mcids |-> <<>>])]
      [] items[i].type = "endMarkedContent" ->
           [st EXCEPT !.textStack = IF @ = <<>> THEN <<>> ELSE SubSeq(@, 1, Len(@) - 1)]
      [] items[i].str # "" ->
           IF ActiveMcids(st.textStack) = <<>> THEN st
           ELSE TextState(st.textStack,
                          AppendText(st.mcidToText, TargetMcids(st, items[i].str), i),
                          IF IsWhitespaceOnly(items[i].str) THEN st.mcidHasContent
                          ELSE st.mcidHasContent \cup Range(ActiveMcids(st.textStack)),
                          IF IsWhitespaceOnly(items[i].str) THEN st.lastTextMcids
                          ELSE Range(ActiveMcids(st.textStack)))
      [] OTHER -> st

\* processTextItems over the first n items of the page.
RECURSIVE processTextItems(_, _)
processTextItems(items, n) ==
    IF n = 0 THEN TextState(<<>>, <<>>, {}, {})
    ELSE processTextItem(processTextItems(items, n - 1), items, n)

\* The fields the loop of extractOperators reads and writes.
OperatorState(stk, props, ops, images) ==
    [stack |-> stk, mcidToProps |-> props, mcidToOps |-> ops, mcidToImages |-> images]

\* One turn of `for (let i = 0; i < fns.length; i++)` in extractOperators.
extractOperator(st, fns, i) ==
    CASE fns[i].fn = "beginMarkedContentProps" ->
           [st EXCEPT !.mcidToProps = SetProps(@, fns[i].props),
                      !.stack = Append(@, [mcids |-> IF MarkedContentId(fns[i].props) # NoMCID
                                                     THEN <<MarkedContentId(fns[i].props)>>
                                                     ELSE <<>>])]
      [] fns[i].fn = "beginMarkedContent" ->
           [st EXCEPT !.stack = Append(@, [mcids |-> <<>>])]
      [] fns[i].fn = "endMarkedContent" ->
           [st EXCEPT !.stack = IF @ = <<>> THEN <<>> ELSE SubSeq(@, 1, Len(@) - 1)]
      [] OTHER ->
           [st EXCEPT !.mcidToImages = IF fns[i].fn = "paintImageXObject"
                                       THEN Record(@, ActiveMcids(st.stack), i)
                                       ELSE @,
                      !.mcidToOps = Record(@, ActiveMcids(st.stack), i)]

\* The loop of extractOperators over the first n operators of the page.
RECURSIVE extractOperators(_, _)
extractOperators(fns, n) ==
    IF n = 0 THEN OperatorState(<<>>, <<>>, <<>>, <<>>)
    ELSE extractOperator(extractOperators(fns, n - 1), fns, n)

\* getText(mcid): the strings appended for the content id, in order.
getText(mcid) ==
    IF mcid \in DOMAIN mcidToText
    THEN [k \in DOMAIN mcidToText[mcid] |-> textItems[mcidToText[mcid][k]].str]
    ELSE <<>>

\* getImages(mcid), getOperators(mcid)
getImages(mcid) == IF mcid \in DOMAIN mcidToImages THEN mcidToImages[mcid] ELSE <<>>
getOperators(mcid) == IF mcid \in DOMAIN mcidToOps THEN mcidToOps[mcid] ELSE <<>>

\* The text items and the operators of the model.
TextItem(type, id, str) == [type |-> type, id |-> id, str |-> str]

TextItems ==
    { TextItem("beginMarkedContentProps", <<"p", "_mc", "0">>, ""),
      TextItem("beginMarkedContentProps", <<"p", "_mc", "1">>, ""),
      TextItem("beginMarkedContent", <<>>, ""),
      TextItem("endMarkedContent", <<>>, ""),
      TextItem("", <<>>, "a"),
      TextItem("", <<>>, " ") }

Operator(fn) == [fn |-> fn, props |-> [kind |-> "none", MCID |-> NoMCID, entries |-> <<>>]]

Operators ==
    { BeginProps("dict", 0, [k \in {"Lang"} |-> "en"]),
      BeginProps("number", 1, <<>>),
      Operator("beginMarkedContent"),
      Operator("endMarkedContent"),
      Operator("constructPath"),
      Operator("paintImageXObject") }

\* A page has text items only, every sequence it begins naming a content id,
\* or operators as well and fewer items in all.
InitPage ==
    /\ pc = "input"
    /\ roleMap = <<>>
    /\ RoleIdle
    /\ AttrIdle
    /\ TreeIdle
    /\ RunIdle
    /\ LinkIdle
    /\ SvgIdle
    /\ \E k \in 0..MaxPageItems, n \in 0..MaxTextItems :
          /\ k = 0 \/ k + n <= MaxPageItems
          /\ operators \in [1..k -> Operators]
          /\ textItems \in [1..n -> IF k = 0 THEN { item \in TextItems : item.type # "beginMarkedContent" }
                                     ELSE TextItems]
    /\ opIndex = 0
    /\ stack = <<>>
    /\ mcidToProps = <<>>
    /\ mcidToOps = <<>>
    /\ mcidToImages = <<>>
    /\ textIndex = 0
    /\ textStack = <<>>
    /\ mcidToText = <<>>
    /\ mcidHasContent = {}
    /\ lastTextMcids = {}

\* extract: Promise.all starts both passes.
Extract ==
    /\ pc = "input"
    /\ opIndex' = 1
    /\ textIndex' = 1
    /\ pc' = "operators"
    /\ UNCHANGED <<roleMap, roleVars, attrVars, treeVars, runVars, linkVars, svgVars,
                   operators, stack, mcidToProps, mcidToOps, mcidToImages,
                   textItems, textStack, mcidToText, mcidHasContent, lastTextMcids>>

\* One stack for both passes.
TextStackShared == stack

\* this.textStack, which the turns of processTextItems read.
TextStack == textStack

\* processTextItems takes the item at textIndex, of one of the given types.
ProcessTextItem(types) ==
    /\ pc = "operators"
    /\ textIndex \in 1..Len(textItems)
    /\ textItems[textIndex].type \in types
    /\ LET st == processTextItem(TextState(TextStack, mcidToText, mcidHasContent, lastTextMcids),
                                 textItems, textIndex)
       IN  /\ textStack' = st.textStack
           /\ mcidToText' = st.mcidToText
           /\ mcidHasContent' = st.mcidHasContent
           /\ lastTextMcids' = st.lastTextMcids
    /\ textIndex' = textIndex + 1
    /\ UNCHANGED <<pc, roleMap, roleVars, attrVars, treeVars, runVars, linkVars, svgVars,
                   extractVars, textItems>>

\* if (item.type === "beginMarkedContentProps")
TextBeginMarkedContentProps == ProcessTextItem({"beginMarkedContentProps"})

\* else if (item.type === "beginMarkedContent")
TextBeginMarkedContent == ProcessTextItem({"beginMarkedContent"})

\* else if (item.type === "endMarkedContent")
TextEndMarkedContent == ProcessTextItem({"endMarkedContent"})

\* else if (item.str)
TextString == ProcessTextItem({""})

\* Both promises of Promise.all have resolved: extract returns.
ExtractReturns ==
    /\ pc = "operators"
    /\ opIndex > Len(operators)
    /\ textIndex > Len(textItems)
    /\ pc' = "extracted"
    /\ UNCHANGED <<roleMap, roleVars, attrVars, treeVars, runVars, linkVars, svgVars,
                   extractVars, textVars>>

NextPage ==
    \/ Extract
    \/ BeginMarkedContentProps
    \/ BeginMarkedContent
    \/ EndMarkedContent
    \/ RecordOperator
    \/ TextBeginMarkedContentProps
    \/ TextBeginMarkedContent
    \/ TextEndMarkedContent
    \/ TextString
    \/ ExtractReturns

SpecPage == InitPage /\ [][NextPage]_vars

(***************************************************************************)
(* What the marked-content events of a pass say is open at a position.     *)
(***************************************************************************)
ContentIds == {0, 1}

\* The begin/end events of the operator pass and of the text pass.
OperatorEvents ==
    [i \in DOMAIN operators |->
        CASE operators[i].fn = "beginMarkedContentProps" ->
               [kind |-> "begin", ids |-> {MarkedContentId(operators[i].props)} \ {NoMCID}]
          [] operators[i].fn = "beginMarkedContent" -> [kind |-> "begin", ids |-> {}]
          [] operators[i].fn = "endMarkedContent" -> [kind |-> "end", ids |-> {}]
          [] OTHER -> [kind |-> "content", ids |-> {}]]

TextEvents ==
    [i \in DOMAIN textItems |->
        CASE textItems[i].type = "beginMarkedContentProps" ->
               [kind |-> "begin", ids |-> Range(TextItemMcids(textItems[i]))]
          [] textItems[i].type = "beginMarkedContent" -> [kind |-> "begin", ids |-> {}]
          [] textItems[i].type = "endMarkedContent" -> [kind |-> "end", ids |-> {}]
          [] OTHER -> [kind |-> "content", ids |-> {}]]

\* The marked-content sequences open when the event at position i is met:
\* a begin opens one, an end closes the innermost open one, if any.
RECURSIVE OpenBefore(_, _)
OpenBefore(events, i) ==
    IF i <= 1 THEN <<>>
    ELSE LET open == OpenBefore(events, i - 1)
         IN  CASE events[i - 1].kind = "begin" -> Append(open, events[i - 1].ids)
               [] events[i - 1].kind = "end" ->
                    IF open = <<>> THEN <<>> ELSE SubSeq(open, 1, Len(open) - 1)
               [] OTHER -> open

IdsOnStack(events, i) == UNION Range(OpenBefore(events, i))

\* The positions of the text items and operators the passes are through with.
TextDone == { i \in DOMAIN textItems : i < textIndex }
OperatorsDone == { i \in DOMAIN operators : i < opIndex }

IsFragment(i) == textItems[i].type = "" /\ textItems[i].str # ""
IsContentOperator(i) == OperatorEvents[i].kind = "content"

\* The content ids the text item / operator at position i is recorded for.
TextRecordedFor(i) == { m \in DOMAIN mcidToText : i \in Range(mcidToText[m]) }
OperatorRecordedFor(i) == { m \in DOMAIN mcidToOps : i \in Range(mcidToOps[m]) }
ImageRecordedFor(i) == { m \in DOMAIN mcidToImages : i \in Range(mcidToImages[m]) }

\* C27: every non-whitespace text fragment and every image or path operator
\* met while content ids are on the marked-content stack is recorded for each
\* id on the stack, the outer ones included, and for no other id.
C27_RecordedForEveryActiveId ==
    /\ \A i \in OperatorsDone :
          IsContentOperator(i) =>
              /\ OperatorRecordedFor(i) = IdsOnStack(OperatorEvents, i)
              /\ operators[i].fn = "paintImageXObject" =>
                    ImageRecordedFor(i) = IdsOnStack(OperatorEvents, i)
    /\ \A i \in TextDone :
          IsFragment(i) /\ ~IsWhitespaceOnly(textItems[i].str) =>
              TextRecordedFor(i) = IdsOnStack(TextEvents, i)

\* An image painted inside two nested sequences is recorded for both ids.
C27_Witness ==
    /\ pc = "extracted"
    /\ \E i \in OperatorsDone :
          /\ operators[i].fn = "paintImageXObject"
          /\ Len(OpenBefore(OperatorEvents, i)) = 2
          /\ ImageRecordedFor(i) = {0, 1}
          /\ OperatorRecordedFor(i) = {0, 1}

\* The fragments met with a content id on the stack, before position i.
FragmentsBefore(i) ==
    { j \in DOMAIN textItems :
        j < i /\ IsFragment(j) /\ IdsOnStack(TextEvents, j) # {} }

ContentBefore(i) == { j \in FragmentsBefore(i) : ~IsWhitespaceOnly(textItems[j].str) }

\* The content ids of the most recent non-whitespace fragment before position i.
PreviousSet(i) ==
    IF ContentBefore(i) = {} THEN {}
    ELSE IdsOnStack(TextEvents, CHOOSE j \in ContentBefore(i) : \A k \in ContentBefore(i) : k <= j)

\* The content ids that received non-whitespace text before position i.
HadContentBefore(i) == UNION { IdsOnStack(TextEvents, j) : j \in ContentBefore(i) }

\* A whitespace-only fragment goes to the previous set instead of the active one.
GoesToPreviousSet(i) ==
    /\ IdsOnStack(TextEvents, i) \cap HadContentBefore(i) = {}
    /\ PreviousSet(i) # {}

IsWhitespaceFragment(i) ==
    /\ IsFragment(i)
    /\ IsWhitespaceOnly(textItems[i].str)
    /\ IdsOnStack(TextEvents, i) # {}

\* C28: a whitespace-only fragment met with a non-empty active set is appended
\* to the ids of the most recent non-whitespace fragment, and to no active one,
\* exactly when no active id has received non-whitespace text and there is such
\* a previous set; otherwise to every active id.  It marks no id as having
\* content and leaves the remembered previous set as it is.
C28_WhitespaceGoesToPreviousSet ==
    /\ \A i \in TextDone :
          IsWhitespaceFragment(i) =>
              /\ GoesToPreviousSet(i) =>
                    /\ TextRecordedFor(i) = PreviousSet(i)
                    /\ TextRecordedFor(i) \cap IdsOnStack(TextEvents, i) = {}
              /\ ~GoesToPreviousSet(i) => TextRecordedFor(i) = IdsOnStack(TextEvents, i)
    /\ mcidHasContent = HadContentBefore(textIndex)
    /\ lastTextMcids = PreviousSet(textIndex)

\* A space met under id 1, which has no text yet, after text of id 0, went to
\* id 0; and another space, met under an id that has text, went to that id.
C28_Witness ==
    /\ pc = "extracted"
    /\ \E i \in TextDone :
          /\ IsWhitespaceFragment(i)
          /\ GoesToPreviousSet(i)
          /\ IdsOnStack(TextEvents, i) = {1}
          /\ TextRecordedFor(i) = {0}
          /\ getText(0) = <<"a", " ">>
          /\ getText(1) = <<>>

\* The values of the getters when each pass runs from start to end by itself.
TextAlone == processTextItems(textItems, Len(textItems))
OperatorsAlone == extractOperators(operators, Len(operators))
ValueOf(map, mcid) == IF mcid \in DOMAIN map THEN map[mcid] ELSE <<>>

\* C30: the text pass and the operator pass of extract write fields of their
\* own, so after extract has completed getText, getImages, getOperators and
\* getProperties return what the two passes give when run one after the other,
\* whatever the interleaving of their turns was.
C30_GettersIndependentOfInterleaving ==
    pc = "extracted" =>
        \A mcid \in ContentIds :
            /\ getText(mcid) =
                 [k \in DOMAIN ValueOf(TextAlone.mcidToText, mcid) |->
                     textItems[ValueOf(TextAlone.mcidToText, mcid)[k]].str]
            /\ getImages(mcid) = ValueOf(OperatorsAlone.mcidToImages, mcid)
            /\ getOperators(mcid) = ValueOf(OperatorsAlone.mcidToOps, mcid)
            /\ getProperties(mcid) = ValueOf(OperatorsAlone.mcidToProps, mcid)

\* Both passes have recorded something for content id 0 of one page.
C30_Witness ==
    /\ pc = "extracted"
    /\ getText(0) # <<>>
    /\ getProperties(0) # <<>>

(***************************************************************************)
(* generateSVG (svg_generator.ts): the paths of one vector graphic.        *)
(*                                                                         *)
(* Path data is the sequence of its commands, "M", "L" and "Z", without    *)
(* the coordinates; colours and line width stay at their initial values.   *)
(* The function declares paths and currentPath but no variable svg, so the *)
(* statement `svg += ...` of the painting cases raises a ReferenceError,   *)
(* which ends the call.                                                    *)
(***************************************************************************)
MaxSvgOperators == 3

FillVariants == {"fill", "eoFill", "fillStroke", "eoFillStroke", "closeFillStroke", "closeEOFillStroke"}
StrokeVariants == {"stroke", "closeStroke", "fillStroke", "eoFillStroke", "closeFillStroke", "closeEOFillStroke"}
EvenOddVariants == {"eoFill", "eoFillStroke", "closeEOFillStroke"}
CloseVariants == {"closeStroke", "closeFillStroke", "closeEOFillStroke"}
PaintVariants == FillVariants \cup StrokeVariants

\* buildPathFromDrawOps: the commands of the draw operations, in order.
RECURSIVE buildPathFromDrawOps(_)
buildPathFromDrawOps(data) ==
    IF data = <<>> THEN <<>>
    ELSE (CASE Head(data) = "moveTo" -> <<"M">>
            [] Head(data) = "lineTo" -> <<"L">>
            [] Head(data) = "closePath" -> <<"Z">>
            [] OTHER -> <<>>) \o buildPathFromDrawOps(Tail(data))

\* The path element the case OPS.constructPath pushes on paths.
ConstructedPath(opCode, data) ==
    [d |-> buildPathFromDrawOps(data),
     fill |-> IF opCode \in FillVariants THEN "black" ELSE "none",
     stroke |-> IF opCode \in StrokeVariants THEN "black" ELSE "none",
     rule |-> IF opCode \in EvenOddVariants THEN "evenodd" ELSE "nonzero"]

\* currentPath after a path construction operator.
PathCommands(fn) ==
    CASE fn = "moveTo" -> <<"M">>
      [] fn = "lineTo" -> <<"L">>
      [] fn = "closePath" -> <<"Z">>
      [] fn = "rectangle" -> <<"M", "L", "L", "L", "Z">>

\* currentPath when a painting case reaches `if (currentPath)`.
PathToPaint(fn, path) == IF fn \in CloseVariants THEN path \o <<"Z">> ELSE path

SvgOperator(fn, opCode, data) == [fn |-> fn, opCode |-> opCode, data |-> data]

SvgOperators ==
    { SvgOperator("constructPath", v, <<"moveTo", "lineTo">>) : v \in PaintVariants \cup {"endPath"} }
    \cup { SvgOperator("constructPath", "stroke", <<>>) }
    \cup { SvgOperator(fn, "", <<>>) :
             fn \in {"moveTo", "lineTo", "closePath", "rectangle", "endPath", "showText"} \cup PaintVariants }

InitSvg ==
    /\ pc = "input"
    /\ roleMap = <<>>
    /\ RoleIdle
    /\ AttrIdle
    /\ TreeIdle
    /\ RunIdle
    /\ LinkIdle
    /\ ExtractIdle
    /\ TextIdle
    /\ \E k \in 0..MaxSvgOperators : fnArray \in [1..k -> SvgOperators]
    /\ fnIndex = 0
    /\ currentPath = <<>>
    /\ paths = <<>>
    /\ svg = NoSvg

svgOther == <<roleMap, roleVars, attrVars, treeVars, runVars, linkVars, extractVars, textVars>>

\* generateSVG up to its loop.
GenerateSVG ==
    /\ pc = "input"
    /\ fnIndex' = 1
    /\ pc' = "svg"
    /\ UNCHANGED <<svgOther, fnArray, currentPath, paths, svg>>

\* case OPS.constructPath
ConstructPath ==
    /\ pc = "svg"
    /\ fnIndex <= Len(fnArray)
    /\ fnArray[fnIndex].fn = "constructPath"
    /\ paths' = IF buildPathFromDrawOps(fnArray[fnIndex].data) = <<>> THEN paths
                ELSE Append(paths, ConstructedPath(fnArray[fnIndex].opCode, fnArray[fnIndex].data))
    /\ fnIndex' = fnIndex + 1
    /\ UNCHANGED <<svgOther, pc, fnArray, currentPath, svg>>

\* case OPS.moveTo, lineTo, closePath, rectangle
PathConstruction ==
    /\ pc = "svg"
    /\ fnIndex <= Len(fnArray)
    /\ fnArray[fnIndex].fn \in {"moveTo", "lineTo", "closePath", "rectangle"}
    /\ currentPath' = currentPath \o PathCommands(fnArray[fnIndex].fn)
    /\ fnIndex' = fnIndex + 1
    /\ UNCHANGED <<svgOther, pc, fnArray, paths, svg>>

\* case OPS.fill ... OPS.closeStroke: `svg += ...` under `if (currentPath)`.
PaintPath ==
    /\ pc = "svg"
    /\ fnIndex <= Len(fnArray)
    /\ fnArray[fnIndex].fn \in PaintVariants
    /\ IF PathToPaint(fnArray[fnIndex].fn, currentPath) # <<>>
       THEN /\ svg' = [tag |-> "ReferenceError", paths |-> <<>>]
            /\ pc' = "generated"
            /\ currentPath' = PathToPaint(fnArray[fnIndex].fn, currentPath)
            /\ UNCHANGED fnIndex
       ELSE /\ fnIndex' = fnIndex + 1
            /\ UNCHANGED <<pc, currentPath, svg>>
    /\ UNCHANGED <<svgOther, fnArray, paths>>

\* case OPS.endPath
EndPath ==
    /\ pc = "svg"
    /\ fnIndex <= Len(fnArray)
    /\ fnArray[fnIndex].fn = "endPath"
    /\ currentPath' = <<>>
    /\ fnIndex' = fnIndex + 1
    /\ UNCHANGED <<svgOther, pc, fnArray, paths, svg>>

\* Text and image operators, and those no case names.
SkipOperator ==
    /\ pc = "svg"
    /\ fnIndex <= Len(fnArray)
    /\ fnArray[fnIndex].fn = "showText"
    /\ fnIndex' = fnIndex + 1
    /\ UNCHANGED <<svgOther, pc, fnArray, currentPath, paths, svg>>

\* return `<svg ...>${paths.join("")}</svg>`
ReturnSvg ==
    /\ pc = "svg"
    /\ fnIndex > Len(fnArray)
    /\ svg' = [tag |-> "svg", paths |-> paths]
    /\ pc' = "generated"
    /\ UNCHANGED <<svgOther, fnArray, fnIndex, currentPath, paths>>

NextSvg ==
    \/ GenerateSVG
    \/ ConstructPath
    \/ PathConstruction
    \/ PaintPath
    \/ EndPath
    \/ SkipOperator
    \/ ReturnSvg

SpecSvg == InitSvg /\ [][NextSvg]_vars

\* What painting a path with the operator variant asks of the path element.
Painting(variant) ==
    [filled |-> variant \in FillVariants,
     stroked |-> variant \in StrokeVariants,
     rule |-> IF variant \in EvenOddVariants THEN "evenodd" ELSE "nonzero",
     closed |-> variant \in CloseVariants]

\* The paintings of the paths the first n operators build and then paint, in
\* order: a constructPath with path data, or path construction operators
\* followed by a painting operator.  `built` tells whether a path is under
\* construction after the operators.
RECURSIVE PaintedPaths(_, _)
PaintedPaths(ops, n) ==
    IF n = 0 THEN [painted |-> <<>>, built |-> FALSE]
    ELSE LET before == PaintedPaths(ops, n - 1)
             op == ops[n]
         IN  CASE op.fn = "constructPath" /\ op.data # <<>> /\ op.opCode \in PaintVariants ->
                    [before EXCEPT !.painted = Append(@, Painting(op.opCode))]
               [] op.fn \in {"moveTo", "lineTo", "closePath", "rectangle"} ->
                    [before EXCEPT !.built = TRUE]
               [] op.fn \in PaintVariants /\ before.built ->
                    [painted |-> Append(before.painted, Painting(op.fn)), built |-> FALSE]
               [] op.fn = "endPath" -> [before EXCEPT !.built = FALSE]
               [] OTHER -> before

\* The path elements that are filled or stroked.
IsPainted(path) == path.fill # "none" \/ path.stroke # "none"

PathIs(path, painting) ==
    /\ (path.fill # "none") = painting.filled
    /\ (path.stroke # "none") = painting.stroked
    /\ painting.filled => path.rule = painting.rule
    /\ painting.closed => path.d # <<>> /\ path.d[Len(path.d)] = "Z"

\* C22: for every path built by path construction operators and then painted,
\* generateSVG returns one svg element with a path that is filled for the fill
\* variants (evenodd for the even-odd ones, nonzero otherwise), stroked for the
\* stroke variants, both for fill-and-stroke, neither for end-path, and closed
\* before painting for the close-and-paint variants.
C22_PaintedPathsInSvg ==
    pc = "generated" /\ PaintedPaths(fnArray, Len(fnArray)).painted # <<>> =>
        /\ svg.tag = "svg"
        /\ LET expected == PaintedPaths(fnArray, Len(fnArray)).painted
               found == SelectSeq(svg.paths, IsPainted)
           IN  /\ Len(found) = Len(expected)
               /\ \A k \in DOMAIN expected : PathIs(found[k], expected[k])

====
